---- MODULE Spec2Model ----
(***************************************************************************)
(* Discrete-time multi-robot warehouse simulator (Sim_CEDIS):              *)
(* SimAlmacen (sim_core.py), TablaReservas (tabla_reservas.py) and the     *)
(* A* planner (a_estrella.py).  One action, Step, is one call of           *)
(* SimAlmacen.step(); Init is the state left by SimAlmacen.__init__.       *)
(***************************************************************************)
EXTENDS Integers, Sequences, FiniteSets, TLC

\* sim: the SimAlmacen object; layout: what cargar_layout handed to it (read-only
\* for the simulator); plan: the last call of the planner on its own
VARIABLES sim, layout, plan

(* ------------------------------------------------------------------ *)
(* Bounds of the model                                                 *)
(* ------------------------------------------------------------------ *)

\* largest number of robots a run is built with
MaxRobots == 2
\* largest number of orders in the order list
MaxPedidos == 2
\* step() is not called any more once tick reaches MaxTick
MaxTick == 9

(* ------------------------------------------------------------------ *)
(* Cell kinds and the layout handed to the simulator                   *)
(* ------------------------------------------------------------------ *)

LIBRE == 0
ANAQUEL == 1
ESTACION == 2
BLOQUEADO == 3

\* Optional[int] = None
NoneInt == -1
\* Optional[Celda] = None, and a_estrella's "no route"
NoneCelda == << >>

\* The warehouse the runs of Spec are given.  grid[y][x], row y = 0 first.
\* Shelves 0 and 1 open on the corridor y = 1, shelf 2 opens only on the
\* enclosed cell (4,3), shelf 3 has no transitable neighbour; (2,2) is a side
\* pocket of the corridor.  Station 1's dock is the enclosed cell.
LayoutAlmacen ==
  [grid |-> << << 3, 1, 3, 1, 3 >>,
               << 0, 0, 0, 0, 2 >>,
               << 3, 3, 0, 3, 3 >>,
               << 1, 3, 3, 1, 0 >> >>,
   anaquel_home |-> (0 :> <<1, 0>>) @@ (1 :> <<3, 0>>) @@ (2 :> <<3, 3>>) @@ (3 :> <<0, 3>>),
   estacion_dock |-> (0 :> <<4, 1>>) @@ (1 :> <<4, 3>>)]

grid == layout.grid

alto == Len(grid)
ancho == Len(grid[1])

valor_grid(x, y) == grid[y + 1][x + 1]

\* anaquel_id -> home cell (a shelf cell)
anaquel_home_de == layout.anaquel_home

\* estacion_id -> dock cell
estacion_dock_de == layout.estacion_dock

Abs(n) == IF n < 0 THEN 0 - n ELSE n

(* ------------------------------------------------------------------ *)
(* a_estrella.py                                                       *)
(* ------------------------------------------------------------------ *)

en_rango(x, y) == 0 <= x /\ x < ancho /\ 0 <= y /\ y < alto

transitable_todo(x, y) == TRUE

\* only shelves and blocked cells are obstacles
transitable_salvo_pared(x, y) == valor_grid(x, y) \notin {ANAQUEL, BLOQUEADO}

transitable(x, y) == valor_grid(x, y) \in {LIBRE, ESTACION}

\* twice the Manhattan distance: an estimate that overshoots
heuristica_doble(x, y, mx, my) == 2 * (Abs(x - mx) + Abs(y - my))

heuristica(x, y, mx, my) == Abs(x - mx) + Abs(y - my)

\* neighbour expansion order of the planner, with one diagonal step added
direcciones_diagonal == << <<1, -1>>, <<1, 0>>, <<-1, 0>>, <<0, 1>>, <<0, -1>> >>

\* neighbour expansion order of the planner
direcciones == << <<1, 0>>, <<-1, 0>>, <<0, 1>>, <<0, -1>> >>

\* Python's order on the heap entries (f, g, (x, y))
menor_entrada(a, b) ==
  \/ a[1] < b[1]
  \/ a[1] = b[1] /\ a[2] < b[2]
  \/ a[1] = b[1] /\ a[2] = b[2] /\ a[3][1] < b[3][1]
  \/ a[1] = b[1] /\ a[2] = b[2] /\ a[3][1] = b[3][1] /\ a[3][2] < b[3][2]

\* heapq.heappop: the least entry.  No entry is pushed twice (a cell is
\* pushed again only with a strictly smaller g), so the heap is a set.
heappop(abiertos) ==
  CHOOSE e \in abiertos : \A o \in abiertos : o = e \/ menor_entrada(e, o)

\* costo_g.get(c, 10**9)
costo_de(costo_g, c) == IF c \in DOMAIN costo_g THEN costo_g[c] ELSE 1000000000

\* the route as the back-pointers give it, goal first: the reverse left out
RECURSIVE reconstruir_al_reves(_, _)
reconstruir_al_reves(vino_de, actual) ==
  IF actual \in DOMAIN vino_de
  THEN << actual >> \o reconstruir_al_reves(vino_de, vino_de[actual])
  ELSE << actual >>

\* ruta = [actual]; follow vino_de back to the start; ruta.reverse()
RECURSIVE reconstruir(_, _)
reconstruir(vino_de, actual) ==
  IF actual \in DOMAIN vino_de
  THEN Append(reconstruir(vino_de, vino_de[actual]), actual)
  ELSE << actual >>

\* the for loop over the four neighbours of `actual`; st = [abiertos, vino_de, costo_g]
RECURSIVE expandir(_, _, _, _, _)
expandir(st, actual, g_actual, meta, i) ==
  IF i > Len(direcciones) THEN st
  ELSE LET nx == actual[1] + direcciones[i][1]
           ny == actual[2] + direcciones[i][2]
           nuevo_g == g_actual + 1
       IN IF (~en_rango(nx, ny)) \/ (~transitable(nx, ny))
          THEN expandir(st, actual, g_actual, meta, i + 1)
          ELSE IF nuevo_g < costo_de(st.costo_g, <<nx, ny>>)
               THEN expandir(
                      [abiertos |-> st.abiertos \cup
                         { << nuevo_g + heuristica(nx, ny, meta[1], meta[2]), nuevo_g, <<nx, ny>> >> },
                       vino_de |-> (<<nx, ny>> :> actual) @@ st.vino_de,
                       costo_g |-> (<<nx, ny>> :> nuevo_g) @@ st.costo_g],
                      actual, g_actual, meta, i + 1)
               ELSE expandir(st, actual, g_actual, meta, i + 1)

\* the while loop over the open heap
RECURSIVE a_estrella_bucle(_, _, _)
a_estrella_bucle(st, cerrados, meta) ==
  IF st.abiertos = {} THEN NoneCelda
  ELSE LET e == heappop(st.abiertos)
           resto == [st EXCEPT !.abiertos = @ \ {e}]
           actual == e[3]
       IN IF actual \in cerrados
          THEN a_estrella_bucle(resto, cerrados, meta)
          ELSE IF actual = meta
               THEN reconstruir(st.vino_de, actual)
               ELSE a_estrella_bucle(expandir(resto, actual, e[2], meta, 1),
                                     cerrados \cup {actual}, meta)

a_estrella(inicio, meta) ==
  IF (~en_rango(inicio[1], inicio[2])) \/ (~en_rango(meta[1], meta[2]))
  THEN NoneCelda
  ELSE IF (~transitable(inicio[1], inicio[2])) \/ (~transitable(meta[1], meta[2]))
       THEN NoneCelda
       ELSE a_estrella_bucle(
              [abiertos |-> { << heuristica(inicio[1], inicio[2], meta[1], meta[2]), 0, inicio >> },
               vino_de |-> << >>,
               costo_g |-> (inicio :> 0)],
              {}, meta)

(* ------------------------------------------------------------------ *)
(* tabla_reservas.py: T = [reserva_celdas, reserva_aristas]            *)
(* ------------------------------------------------------------------ *)

TablaVacia == [reserva_celdas |-> << >>, reserva_aristas |-> << >>]

\* a vertex test that looks two ticks back
celda_libre_hace_dos(T, celda, t) == << celda[1], celda[2], t - 2 >> \notin DOMAIN T.reserva_celdas

\* a table that never sees a vertex reservation
celda_libre_siempre(T, celda, t) == TRUE

celda_libre(T, celda, t) == << celda[1], celda[2], t >> \notin DOMAIN T.reserva_celdas

reservar_celda(T, robot_id, celda, t) ==
  [T EXCEPT !.reserva_celdas = (<< celda[1], celda[2], t >> :> robot_id) @@ @]

arista_libre(T, a, b, t) == << a[1], a[2], b[1], b[2], t >> \notin DOMAIN T.reserva_aristas

\* the edge booked in the direction opposite to the move
reservar_arista_invertida(T, robot_id, a, b, t) ==
  [T EXCEPT !.reserva_aristas = (<< b[1], b[2], a[1], a[2], t >> :> robot_id) @@ @]

reservar_arista(T, robot_id, a, b, t) ==
  [T EXCEPT !.reserva_aristas = (<< a[1], a[2], b[1], b[2], t >> :> robot_id) @@ @]

\* puede_moverse checking the edge in the direction of travel instead of the opposite one
puede_moverse_misma_arista(T, actual, siguiente, tick_siguiente) ==
  IF ~celda_libre(T, siguiente, tick_siguiente)
  THEN [ret |-> FALSE, tabla |-> T]
  ELSE IF ~arista_libre(T, actual, siguiente, tick_siguiente)
       THEN [ret |-> FALSE, tabla |-> T]
       ELSE [ret |-> TRUE, tabla |-> T]

\* puede_moverse without the swap test
puede_moverse_sin_arista(T, actual, siguiente, tick_siguiente) ==
  IF ~celda_libre(T, siguiente, tick_siguiente)
  THEN [ret |-> FALSE, tabla |-> T]
  ELSE [ret |-> TRUE, tabla |-> T]

\* the value returned, and the table the call leaves behind
puede_moverse(T, actual, siguiente, tick_siguiente) ==
  IF ~celda_libre(T, siguiente, tick_siguiente)
  THEN [ret |-> FALSE, tabla |-> T]
  ELSE IF ~arista_libre(T, siguiente, actual, tick_siguiente)
       THEN [ret |-> FALSE, tabla |-> T]
       ELSE [ret |-> TRUE, tabla |-> T]

confirmar_movimiento(T, robot_id, actual, siguiente, tick_siguiente) ==
  reservar_arista(reservar_celda(T, robot_id, siguiente, tick_siguiente),
                  robot_id, actual, siguiente, tick_siguiente)

confirmar_espera(T, robot_id, actual, tick_siguiente) ==
  reservar_celda(T, robot_id, actual, tick_siguiente)

(* ------------------------------------------------------------------ *)
(* sim_core.py: data model                                             *)
(* ------------------------------------------------------------------ *)

\* scan cap of the assignment policy
LimiteCola == 50
\* mejor_dist = 10**9
DistInfinita == 1000000000

Robot(robot_id, pos) ==
  [robot_id |-> robot_id, pos |-> pos, estado |-> "INACTIVO", pedido_id |-> NoneInt,
   anaquel_home |-> NoneCelda, estacion_dock |-> NoneCelda, ruta |-> << >>,
   idx_ruta |-> 0, ticks_espera |-> 0, celdas_movidas |-> 0, ticks_ocupado |-> 0]

Pedido(pedido_id, anaquel_id, estacion_id, tick_creacion) ==
  [pedido_id |-> pedido_id, anaquel_id |-> anaquel_id, estacion_id |-> estacion_id,
   tick_creacion |-> tick_creacion, tick_asignacion |-> NoneInt, tick_completado |-> NoneInt]

\* the neighbourhood taken two cells away instead of one
celdas_adyacentes_a_dos(celda) ==
  << << celda[1] + 2, celda[2] >>, << celda[1] - 2, celda[2] >>,
     << celda[1], celda[2] + 2 >>, << celda[1], celda[2] - 2 >> >>

celdas_adyacentes(celda) ==
  << << celda[1] + 1, celda[2] >>, << celda[1] - 1, celda[2] >>,
     << celda[1], celda[2] + 1 >>, << celda[1], celda[2] - 1 >> >>

RECURSIVE primer_adyacente(_, _)
primer_adyacente(ady, i) ==
  IF i > Len(ady) THEN NoneCelda
  ELSE IF en_rango(ady[i][1], ady[i][2]) /\ valor_grid(ady[i][1], ady[i][2]) \in {LIBRE, ESTACION}
       THEN ady[i]
       ELSE primer_adyacente(ady, i + 1)

elegir_objetivo_adyacente(celda_anaquel) ==
  primer_adyacente(celdas_adyacentes(celda_anaquel), 1)

\* sorted(range(n), key=tick_creacion): stable, so ordered by (tick_creacion, index)
RECURSIVE ordenar_por_creacion(_, _)
ordenar_por_creacion(peds, faltan) ==
  IF faltan = {} THEN << >>
  ELSE LET m == CHOOSE i \in faltan : \A j \in faltan :
                  \/ peds[i].tick_creacion < peds[j].tick_creacion
                  \/ peds[i].tick_creacion = peds[j].tick_creacion /\ i <= j
       IN << m >> \o ordenar_por_creacion(peds, faltan \ {m})

\* a removal that leaves the list as it was
quitar_nada(lista, v) == lista

\* list.remove(v): drops the first occurrence
RECURSIVE quitar(_, _)
quitar(lista, v) ==
  IF lista = << >> THEN << >>
  ELSE IF Head(lista) = v THEN Tail(lista)
       ELSE << Head(lista) >> \o quitar(Tail(lista), v)

(* ------------------------------------------------------------------ *)
(* SimAlmacen: s is the simulator object                               *)
(* ------------------------------------------------------------------ *)

\* release that ignores the creation tick
liberar_todos(s) ==
  [s EXCEPT !.pendientes = @ \o s.no_liberados, !.no_liberados = << >>]

\* release that puts the released orders at the front of the queue
liberar_al_frente(s) ==
  LET creado(i) == s.pedidos[i].tick_creacion <= s.tick
      futuro(i) == s.pedidos[i].tick_creacion > s.tick
  IN [s EXCEPT !.pendientes = SelectSeq(s.no_liberados, creado) \o @,
               !.no_liberados = SelectSeq(@, futuro)]

\* release that moves the head of no_liberados whatever its creation tick
liberar_el_primero(s) ==
  IF s.no_liberados # << >>
  THEN [s EXCEPT !.no_liberados = Tail(@), !.pendientes = Append(@, Head(s.no_liberados))]
  ELSE s

RECURSIVE liberar_pedidos(_)
liberar_pedidos(s) ==
  IF s.no_liberados # << >> /\ s.pedidos[Head(s.no_liberados)].tick_creacion <= s.tick
  THEN liberar_pedidos([s EXCEPT !.no_liberados = Tail(@),
                                 !.pendientes = Append(@, Head(s.no_liberados))])
  ELSE s

\* the scan over the head of the queue; mejor = [idx, dist]
RECURSIVE escanear(_, _, _, _, _)
escanear(peds, pos, cola, k, mejor) ==
  IF k > Len(cola) THEN mejor
  ELSE LET pickup == elegir_objetivo_adyacente(anaquel_home_de[peds[cola[k]].anaquel_id])
       IN IF pickup = NoneCelda
          THEN escanear(peds, pos, cola, k + 1, mejor)
          ELSE LET dist == Abs(pos[1] - pickup[1]) + Abs(pos[2] - pickup[2])
               IN IF dist < mejor.dist
                  THEN escanear(peds, pos, cola, k + 1, [idx |-> cola[k], dist |-> dist])
                  ELSE escanear(peds, pos, cola, k + 1, mejor)

Min(a, b) == IF a < b THEN a ELSE b

\* a revert block that forgets the order's assignment tick
revertir_sin_tick(s, rid, mejor_idx) ==
  [s EXCEPT !.lista_robots[rid].estado = "INACTIVO",
            !.lista_robots[rid].pedido_id = NoneInt,
            !.lista_robots[rid].anaquel_home = NoneCelda,
            !.lista_robots[rid].estacion_dock = NoneCelda,
            !.pendientes = Append(@, mejor_idx)]

\* the revert block of a failed assignment (written twice in the source)
revertir_asignacion(s, rid, mejor_idx) ==
  [s EXCEPT !.lista_robots[rid].estado = "INACTIVO",
            !.lista_robots[rid].pedido_id = NoneInt,
            !.lista_robots[rid].anaquel_home = NoneCelda,
            !.lista_robots[rid].estacion_dock = NoneCelda,
            !.pedidos[mejor_idx].tick_asignacion = NoneInt,
            !.pendientes = Append(@, mejor_idx)]

\* a scan of the whole queue
primeros_en_cola_todos(cola) == cola

\* self.pendientes[: min(50, len(self.pendientes))]
primeros_en_cola(cola) == SubSeq(cola, 1, Min(LimiteCola, Len(cola)))

\* the body of the loop over idle robots, for robot rid: the simulator it
\* leaves, the order it chose and how it ended
intentar(s, rid) ==
  LET r == s.lista_robots[rid]
      mejor == escanear(s.pedidos, r.pos, primeros_en_cola(s.pendientes), 1,
                        [idx |-> NoneInt, dist |-> DistInfinita])
  IN IF mejor.idx = NoneInt THEN [sim |-> s, pedido |-> NoneInt, fin |-> "sin_candidato"]
     ELSE LET mejor_idx == mejor.idx
              p == s.pedidos[mejor_idx]
              pickup == elegir_objetivo_adyacente(anaquel_home_de[p.anaquel_id])
              tomado == [s EXCEPT !.pedidos[mejor_idx].tick_asignacion = s.tick,
                                  !.pendientes = quitar(@, mejor_idx),
                                  !.lista_robots[rid].pedido_id = p.pedido_id,
                                  !.lista_robots[rid].anaquel_home = anaquel_home_de[p.anaquel_id],
                                  !.lista_robots[rid].estacion_dock = estacion_dock_de[p.estacion_id],
                                  !.lista_robots[rid].estado = "A_RECOGER"]
              revertido == revertir_asignacion(tomado, rid, mejor_idx)
          IN IF pickup = NoneCelda
             THEN [sim |-> revertido, pedido |-> mejor_idx, fin |-> "sin_pickup"]
             ELSE LET ruta == a_estrella(r.pos, pickup)
                  IN IF ruta = NoneCelda
                     THEN [sim |-> revertido, pedido |-> mejor_idx, fin |-> "sin_ruta"]
                     ELSE [sim |-> [tomado EXCEPT !.lista_robots[rid].ruta = ruta,
                                                  !.lista_robots[rid].idx_ruta = 0],
                           pedido |-> mejor_idx, fin |-> "asignado"]

\* the attempt i of robot rid, made on s, entered in the step's log of attempts
anotar_intento(s, rid, i) ==
  [i.sim EXCEPT !.intentos = Append(@,
     [robot_id |-> rid, pedido |-> i.pedido, fin |-> i.fin,
      pendientes_antes |-> s.pendientes, pendientes_despues |-> i.sim.pendientes,
      robot_antes |-> s.lista_robots[rid], robot_despues |-> i.sim.lista_robots[rid],
      tick_asignacion |-> IF i.pedido = NoneInt THEN NoneInt
                          ELSE i.sim.pedidos[i.pedido].tick_asignacion])]

\* one pass of the loop body
asignar_a(s, rid) == anotar_intento(s, rid, intentar(s, rid))

RECURSIVE asignar_bucle(_, _, _)
asignar_bucle(s, inactivos, k) ==
  IF k > Len(inactivos) THEN s
  ELSE IF s.pendientes = << >> THEN s
       ELSE asignar_bucle(asignar_a(s, inactivos[k]), inactivos, k + 1)

RECURSIVE lista_inactivos(_, _)
lista_inactivos(robots, i) ==
  IF i \notin DOMAIN robots THEN << >>
  ELSE IF robots[i].estado = "INACTIVO"
       THEN << i >> \o lista_inactivos(robots, i + 1)
       ELSE lista_inactivos(robots, i + 1)

asignar_pedidos(s) ==
  LET inactivos == lista_inactivos(s.lista_robots, 0)
  IN IF inactivos = << >> \/ s.pendientes = << >> THEN s
     ELSE asignar_bucle(s, inactivos, 1)

RECURSIVE completar_desde(_, _, _)
completar_desde(s, pedido_id, i) ==
  IF i \notin DOMAIN s.pedidos THEN s
  ELSE IF s.pedidos[i].pedido_id = pedido_id
       THEN [s EXCEPT !.pedidos[i].tick_completado = s.tick]
       ELSE completar_desde(s, pedido_id, i + 1)

\* a completion that stamps nothing
completar_ninguno(s, pedido_id) == s

\* a completion that also clears the stamp of every other order
completar_y_borrar(s, pedido_id) ==
  LET c == completar_desde(s, pedido_id, 0)
  IN [c EXCEPT !.pedidos = [i \in DOMAIN c.pedidos |->
                              IF c.pedidos[i].pedido_id = pedido_id THEN c.pedidos[i]
                              ELSE [c.pedidos[i] EXCEPT !.tick_completado = NoneInt]]]

completar_pedido(s, pedido_id) == completar_desde(s, pedido_id, 0)

\* the RETORNO branch that leaves the finished route on the robot
terminar_retorno_con_ruta(s, rid) ==
  LET r == s.lista_robots[rid]
      c == IF r.pedido_id # NoneInt THEN completar_pedido(s, r.pedido_id) ELSE s
  IN [c EXCEPT !.lista_robots[rid].estado = "INACTIVO",
               !.lista_robots[rid].pedido_id = NoneInt,
               !.lista_robots[rid].anaquel_home = NoneCelda,
               !.lista_robots[rid].estacion_dock = NoneCelda,
               !.lista_robots[rid].idx_ruta = 0]

\* the RETORNO branch of the leg transition: complete the order, go idle
terminar_retorno(s, rid) ==
  LET r == s.lista_robots[rid]
      c == IF r.pedido_id # NoneInt THEN completar_pedido(s, r.pedido_id) ELSE s
  IN [c EXCEPT !.lista_robots[rid].estado = "INACTIVO",
               !.lista_robots[rid].pedido_id = NoneInt,
               !.lista_robots[rid].anaquel_home = NoneCelda,
               !.lista_robots[rid].estacion_dock = NoneCelda,
               !.lista_robots[rid].ruta = << >>,
               !.lista_robots[rid].idx_ruta = 0]

\* the guard that fires whatever the robot's place on its route
llego_siempre(r) == r.ruta # << >>

\* the guard of the leg transition: the robot stands on the last cell of its route
llego(r) == ~(r.ruta = << >> \/ r.idx_ruta # Len(r.ruta) - 1)

\* a failed replan that leaves the state the branch had already set
replan_fallido_sin_restaurar(s, rid, estado_previo) == s

\* a failed replan: the state set on entering the branch is put back
replan_fallido(s, rid, estado_previo) ==
  [s EXCEPT !.lista_robots[rid].estado = estado_previo]

\* the three branches, for a robot that has arrived: the simulator left
\* behind, and whether the branch ran to its end ("ok"), gave up ("fallo")
\* or there was no branch for the state ("nada")
tramo(s, rid) ==
  LET r == s.lista_robots[rid]
  IN IF r.estado = "A_RECOGER"
     THEN LET e == [s EXCEPT !.lista_robots[rid].estado = "A_ESTACION"]
              ruta == a_estrella(r.pos, r.estacion_dock)
          IN IF ruta = NoneCelda
             THEN [sim |-> replan_fallido(e, rid, "A_RECOGER"), fin |-> "fallo"]
             ELSE [sim |-> [e EXCEPT !.lista_robots[rid].ruta = ruta,
                                     !.lista_robots[rid].idx_ruta = 0],
                   fin |-> "ok"]
     ELSE IF r.estado = "A_ESTACION"
          THEN LET e == [s EXCEPT !.lista_robots[rid].estado = "RETORNO"]
                   pickup == IF r.anaquel_home # NoneCelda
                             THEN elegir_objetivo_adyacente(r.anaquel_home)
                             ELSE NoneCelda
               IN IF pickup = NoneCelda
                  THEN [sim |-> replan_fallido(e, rid, "A_ESTACION"), fin |-> "fallo"]
                  ELSE LET ruta == a_estrella(r.pos, pickup)
                       IN IF ruta = NoneCelda
                          THEN [sim |-> replan_fallido(e, rid, "A_ESTACION"), fin |-> "fallo"]
                          ELSE [sim |-> [e EXCEPT !.lista_robots[rid].ruta = ruta,
                                                  !.lista_robots[rid].idx_ruta = 0],
                                fin |-> "ok"]
          ELSE IF r.estado = "RETORNO"
               THEN [sim |-> terminar_retorno(s, rid), fin |-> "ok"]
               ELSE [sim |-> s, fin |-> "nada"]

\* the branch outcome q of robot rid, taken on s, entered in the step's log of
\* leg transitions
anotar_tramo(s, rid, q) ==
  [q.sim EXCEPT !.tramos = Append(@,
     [robot_id |-> rid, fin |-> q.fin, tick |-> s.tick,
      antes |-> s.lista_robots[rid], despues |-> q.sim.lista_robots[rid]])]

planear_siguiente_tramo_si_llego(s, rid) ==
  IF ~llego(s.lista_robots[rid]) THEN s
  ELSE anotar_tramo(s, rid, tramo(s, rid))

\* a busy count taken after the leg transition: a robot ending RETORNO is idle by then
contar_ocupado_tras_tramo(s, i) ==
  LET r == s.lista_robots[i]
  IN IF r.estado # "INACTIVO" /\ ~(r.estado = "RETORNO" /\ llego(r))
     THEN [s EXCEPT !.lista_robots[i].ticks_ocupado = @ + 1]
     ELSE s

\* a busy count that also counts idle robots
contar_ocupado_siempre(s, i) ==
  [s EXCEPT !.lista_robots[i].ticks_ocupado = @ + 1]

\* ticks_ocupado counts the ticks a robot starts in a state other than INACTIVO
contar_ocupado(s, i) ==
  IF s.lista_robots[i].estado # "INACTIVO"
  THEN [s EXCEPT !.lista_robots[i].ticks_ocupado = @ + 1]
  ELSE s

\* the first loop of step(): busy accounting, leg transition, proposal
RECURSIVE proponer_desde(_, _)
proponer_desde(s, i) ==
  IF i \notin DOMAIN s.lista_robots THEN s
  ELSE LET q == planear_siguiente_tramo_si_llego(contar_ocupado(s, i), i)
           r == q.lista_robots[i]
           propuesta == IF r.estado = "INACTIVO" \/ r.ruta = << >> THEN r.pos
                        ELSE IF r.idx_ruta < Len(r.ruta) - 1
                             THEN r.ruta[r.idx_ruta + 2]
                             ELSE r.pos
       IN proponer_desde([q EXCEPT !.propuestas[i] = propuesta], i + 1)

\* `continue` after confirmar_espera: the robot proposed its own cell
esperar(s, i, tick_siguiente) ==
  LET r == s.lista_robots[i]
  IN [s EXCEPT !.tabla = confirmar_espera(@, r.robot_id, r.pos, tick_siguiente),
               !.resultado[i] = "espera",
               !.bitacora = Append(@, [op |-> "espera", robot_id |-> r.robot_id,
                                       desde |-> r.pos, celda |-> r.pos,
                                       tick |-> tick_siguiente])]

\* a committed move that does not advance along the route
mover_sin_indice(s, i, tabla, siguiente, tick_siguiente) ==
  LET r == s.lista_robots[i]
  IN [s EXCEPT !.tabla = confirmar_movimiento(tabla, r.robot_id, r.pos, siguiente,
                                              tick_siguiente),
               !.lista_robots[i].pos = siguiente,
               !.lista_robots[i].celdas_movidas = @ + 1,
               !.movio_alguien = TRUE,
               !.resultado[i] = "mueve",
               !.bitacora = Append(@, [op |-> "movimiento", robot_id |-> r.robot_id,
                                       desde |-> r.pos, celda |-> siguiente,
                                       tick |-> tick_siguiente])]

\* a committed move that is not counted in celdas_movidas
mover_sin_contar(s, i, tabla, siguiente, tick_siguiente) ==
  LET r == s.lista_robots[i]
  IN [s EXCEPT !.tabla = confirmar_movimiento(tabla, r.robot_id, r.pos, siguiente,
                                              tick_siguiente),
               !.lista_robots[i].pos = siguiente,
               !.lista_robots[i].idx_ruta = @ + 1,
               !.movio_alguien = TRUE,
               !.resultado[i] = "mueve",
               !.bitacora = Append(@, [op |-> "movimiento", robot_id |-> r.robot_id,
                                       desde |-> r.pos, celda |-> siguiente,
                                       tick |-> tick_siguiente])]

\* the branch taken when puede_moverse allows the move
mover(s, i, tabla, siguiente, tick_siguiente) ==
  LET r == s.lista_robots[i]
  IN [s EXCEPT !.tabla = confirmar_movimiento(tabla, r.robot_id, r.pos, siguiente,
                                              tick_siguiente),
               !.lista_robots[i].pos = siguiente,
               !.lista_robots[i].idx_ruta = @ + 1,
               !.lista_robots[i].celdas_movidas = @ + 1,
               !.movio_alguien = TRUE,
               !.resultado[i] = "mueve",
               !.bitacora = Append(@, [op |-> "movimiento", robot_id |-> r.robot_id,
                                       desde |-> r.pos, celda |-> siguiente,
                                       tick |-> tick_siguiente])]

\* a refused move that is not counted as a stop
detener_sin_evento(s, i, tabla, tick_siguiente) ==
  LET r == s.lista_robots[i]
  IN [s EXCEPT !.lista_robots[i].ticks_espera = @ + 1,
               !.tabla = confirmar_espera(tabla, r.robot_id, r.pos, tick_siguiente),
               !.resultado[i] = "alto",
               !.bitacora = Append(@, [op |-> "espera", robot_id |-> r.robot_id,
                                       desde |-> r.pos, celda |-> r.pos,
                                       tick |-> tick_siguiente])]

\* a refused move after which the robot books nothing
detener_sin_reserva(s, i, tabla, tick_siguiente) ==
  [s EXCEPT !.lista_robots[i].ticks_espera = @ + 1,
            !.eventos_alto = @ + 1,
            !.resultado[i] = "alto"]

\* the branch taken when puede_moverse refuses the move
detener(s, i, tabla, tick_siguiente) ==
  LET r == s.lista_robots[i]
  IN [s EXCEPT !.lista_robots[i].ticks_espera = @ + 1,
               !.eventos_alto = @ + 1,
               !.tabla = confirmar_espera(tabla, r.robot_id, r.pos, tick_siguiente),
               !.resultado[i] = "alto",
               !.bitacora = Append(@, [op |-> "espera", robot_id |-> r.robot_id,
                                       desde |-> r.pos, celda |-> r.pos,
                                       tick |-> tick_siguiente])]

\* the puede_moverse call of robot i entered in the step's log of queries, with
\* the number of table writes the step had made when it was asked
anotar_consulta(s, i, actual, siguiente, tick_siguiente, ret) ==
  [s EXCEPT !.consultas = Append(@,
     [robot_id |-> s.lista_robots[i].robot_id, actual |-> actual,
      siguiente |-> siguiente, tick |-> tick_siguiente, ret |-> ret,
      escrituras |-> Len(s.bitacora)])]

\* the second loop of step(): robots in ascending robot_id against the table
RECURSIVE resolver_desde(_, _)
resolver_desde(s, i) ==
  IF i \notin DOMAIN s.lista_robots THEN s
  ELSE LET actual == s.lista_robots[i].pos
           siguiente == s.propuestas[i]
           tick_siguiente == s.tick + 1
       IN IF siguiente = actual
          THEN resolver_desde(esperar(s, i, tick_siguiente), i + 1)
          ELSE LET pm == puede_moverse(s.tabla, actual, siguiente, tick_siguiente)
               IN IF pm.ret
                  THEN resolver_desde(
                         mover(anotar_consulta(s, i, actual, siguiente, tick_siguiente, TRUE),
                               i, pm.tabla, siguiente, tick_siguiente), i + 1)
                  ELSE resolver_desde(
                         detener(anotar_consulta(s, i, actual, siguiente, tick_siguiente, FALSE),
                                 i, pm.tabla, tick_siguiente), i + 1)

\* the heuristic that counts every step in which nobody moved
contar_deadlock_sin_ocupados(s) ==
  IF ~s.movio_alguien THEN [s EXCEPT !.conteo_deadlock = @ + 1] ELSE s

\* the deadlock heuristic at the end of step()
contar_deadlock(s) ==
  IF (~s.movio_alguien) /\
     (\E i \in DOMAIN s.lista_robots : s.lista_robots[i].estado # "INACTIVO")
  THEN [s EXCEPT !.conteo_deadlock = @ + 1]
  ELSE s

step(s) ==
  LET inicio == [s EXCEPT !.pos_ant = [i \in DOMAIN s.lista_robots |-> s.lista_robots[i].pos],
                          !.bitacora = << >>,
                          !.consultas = << >>,
                          !.intentos = << >>,
                          !.tramos = << >>,
                          !.movio_alguien = FALSE]
      propuesto == proponer_desde(asignar_pedidos(liberar_pedidos(inicio)), 0)
      resuelto == resolver_desde([propuesto EXCEPT !.pre_resolver = propuesto.lista_robots], 0)
      contado == contar_deadlock(resuelto)
  IN [contado EXCEPT !.tick = s.tick + 1]

\* a constructor that books no cell at tick 0
reservar_iniciales_ninguna(T, robots, i) == T

\* SimAlmacen.__init__
RECURSIVE reservar_iniciales(_, _, _)
reservar_iniciales(T, robots, i) ==
  IF i \notin DOMAIN robots THEN T
  ELSE reservar_iniciales(confirmar_espera(T, robots[i].robot_id, robots[i].pos, 0),
                          robots, i + 1)

\* the constructor raised: no simulator object exists
ErrorSpawn == [error |-> "RuntimeError"]

SimAlmacen(robots, puntos_spawn, lista_pedidos) ==
  IF Len(puntos_spawn) < robots THEN ErrorSpawn
  ELSE
  LET lista == [i \in 0 .. (robots - 1) |-> Robot(i, puntos_spawn[i + 1])]
  IN [tick |-> 0,
      tabla |-> reservar_iniciales(TablaVacia, lista, 0),
      lista_robots |-> lista,
      pedidos |-> lista_pedidos,
      conteo_deadlock |-> 0,
      eventos_alto |-> 0,
      pendientes |-> << >>,
      no_liberados |-> ordenar_por_creacion(lista_pedidos, DOMAIN lista_pedidos),
      \* what the last step() did, robot by robot
      propuestas |-> [i \in 0 .. (robots - 1) |-> puntos_spawn[i + 1]],
      resultado |-> [i \in 0 .. (robots - 1) |-> "espera"],
      pos_ant |-> [i \in 0 .. (robots - 1) |-> puntos_spawn[i + 1]],
      bitacora |-> << >>,
      consultas |-> << >>,
      intentos |-> << >>,
      tramos |-> << >>,
      pre_resolver |-> lista,
      movio_alguien |-> FALSE]

(* ------------------------------------------------------------------ *)
(* The state machine                                                   *)
(* ------------------------------------------------------------------ *)

vars == << sim, layout, plan >>

\* no planner call of its own has been made
SinPlan == [inicio |-> NoneCelda, meta |-> NoneCelda, ruta |-> NoneCelda]

\* spawn cells the runs start from (all transitable and on the corridor)
CeldasSpawn == { <<0, 1>>, <<2, 1>>, <<3, 1>>, <<2, 2>> }

\* (anaquel_id, estacion_id, tick_creacion) of the orders the runs are given
OpcionesPedido ==
  { <<0, 0, 0>>, <<1, 0, 0>>, <<1, 0, 2>>, <<2, 0, 0>>, <<3, 0, 0>>, <<0, 1, 0>> }

ListasSpawn(n) ==
  { f \in [1 .. n -> CeldasSpawn] : \A i, j \in 1 .. n : i # j => f[i] # f[j] }

ListasPedidos(n) ==
  { [i \in 0 .. (n - 1) |-> Pedido(i, f[i + 1][1], f[i + 1][2], f[i + 1][3])] :
      f \in [1 .. n -> OpcionesPedido] }

Init ==
  /\ layout = LayoutAlmacen
  /\ plan = SinPlan
  /\ \E n \in 1 .. MaxRobots, m \in 0 .. MaxPedidos :
       \E puntos_spawn \in ListasSpawn(n), lista_pedidos \in ListasPedidos(m) :
         sim = SimAlmacen(n, puntos_spawn, lista_pedidos)

Step ==
  /\ sim.tick < MaxTick
  /\ sim' = step(sim)
  /\ UNCHANGED << layout, plan >>

Next == Step

Spec == Init /\ [][Next]_vars

tick == sim.tick
lista_robots == sim.lista_robots
pedidos == sim.pedidos
pendientes == sim.pendientes
no_liberados == sim.no_liberados
reserva_celdas == sim.tabla.reserva_celdas
reserva_aristas == sim.tabla.reserva_aristas
eventos_alto == sim.eventos_alto
conteo_deadlock == sim.conteo_deadlock
propuestas == sim.propuestas
resultado == sim.resultado
pos_ant == sim.pos_ant
bitacora == sim.bitacora
consultas == sim.consultas
intentos == sim.intentos
tramos == sim.tramos
pre_resolver == sim.pre_resolver
pos(i) == sim.lista_robots[i].pos
IdsRobots == DOMAIN sim.lista_robots

(* ------------------------------------------------------------------ *)
(* Properties                                                          *)
(* ------------------------------------------------------------------ *)

Manhattan(a, b) == Abs(a[1] - b[1]) + Abs(a[2] - b[2])

CeldasTransitables ==
  { c \in (0 .. (ancho - 1)) \X (0 .. (alto - 1)) : transitable(c[1], c[2]) }

ClaveCelda(c, t) == << c[1], c[2], t >>
ClaveArista(a, b, t) == << a[1], a[2], b[1], b[2], t >>

\* C1: no vertex collision -- at every tick boundary no two distinct robots
\* have the same pos.
C1_SinColisionVertice ==
  \A a, b \in IdsRobots : a # b => pos(a) # pos(b)

\* C2: no swap -- in no step do two robots standing on different cells u, v
\* end the step on each other's cell.
C2_SinIntercambio ==
  \A a, b \in IdsRobots :
    (a # b /\ pos_ant[a] # pos_ant[b]) => ~(pos(a) = pos_ant[b] /\ pos(b) = pos_ant[a])

\* C2 witness: a step in which two robots on different cells each proposed the
\* other's cell.
C2_Testigo ==
  \E a, b \in IdsRobots :
    /\ a # b
    /\ pos_ant[a] # pos_ant[b]
    /\ propuestas[a] = pos_ant[b]
    /\ propuestas[b] = pos_ant[a]

\* C3: after the resolve pass of the step at tick t (tick is t + 1 once the
\* step returns) every robot owns exactly one vertex reservation at t and
\* exactly one at t + 1, the latter keyed by the cell it stands on.
C3_UnaReservaPorRobot ==
  tick >= 1 =>
    \A r \in IdsRobots :
      /\ Cardinality({ k \in DOMAIN reserva_celdas :
                         k[3] = tick - 1 /\ reserva_celdas[k] = lista_robots[r].robot_id }) = 1
      /\ Cardinality({ k \in DOMAIN reserva_celdas :
                         k[3] = tick /\ reserva_celdas[k] = lista_robots[r].robot_id }) = 1
      /\ ClaveCelda(pos(r), tick) \in DOMAIN reserva_celdas
      /\ reserva_celdas[ClaveCelda(pos(r), tick)] = lista_robots[r].robot_id

\* C4: reservations are monotonic -- an entry of the table keeps its robot_id
\* over every later step, and every reservation a step's commits inserted
\* (bitacora, in call order) is in the table with the inserting robot's id
\* when the step returns.
C4_ReservasMonotonas ==
  [][ /\ \A k \in DOMAIN reserva_celdas :
           k \in DOMAIN reserva_celdas' /\ reserva_celdas'[k] = reserva_celdas[k]
      /\ \A k \in DOMAIN reserva_aristas :
           k \in DOMAIN reserva_aristas' /\ reserva_aristas'[k] = reserva_aristas[k]
      /\ \A i \in DOMAIN bitacora' :
           LET e == bitacora'[i]
           IN /\ ClaveCelda(e.celda, e.tick) \in DOMAIN reserva_celdas'
              /\ reserva_celdas'[ClaveCelda(e.celda, e.tick)] = e.robot_id
              /\ e.op = "movimiento" =>
                   /\ ClaveArista(e.desde, e.celda, e.tick) \in DOMAIN reserva_aristas'
                   /\ reserva_aristas'[ClaveArista(e.desde, e.celda, e.tick)] = e.robot_id
    ]_vars

\* C5: lower id wins contention -- when robots a < b both propose to move into
\* the same cell c, and at a's turn c is not reserved for tick + 1 (no robot
\* below a ends the step on c) and a's move is not a refused swap (no robot
\* below a moved from c onto a's cell), then a moves into c and b stays put
\* with its ticks_espera one higher, b's refusal being one of the refusals of
\* the step that eventos_alto counts one each.
C5_MenorIdGana ==
  [][ \A a, b \in IdsRobots :
        LET c == propuestas'[a]
        IN ( /\ a < b
             /\ propuestas'[b] = c
             /\ c # pos(a)
             /\ c # pos(b)
             /\ \A j \in IdsRobots : j < a => lista_robots'[j].pos # c
             /\ \A j \in IdsRobots :
                  j < a => ~(pos(j) = c /\ lista_robots'[j].pos = pos(a)) )
           => /\ lista_robots'[a].pos = c
              /\ lista_robots'[b].pos = pos(b)
              /\ lista_robots'[b].ticks_espera = lista_robots[b].ticks_espera + 1
              /\ resultado'[b] = "alto"
              /\ eventos_alto' =
                   eventos_alto + Cardinality({ r \in IdsRobots : resultado'[r] = "alto" })
    ]_vars

\* C5 witness: a step in which two robots proposed the same cell, neither
\* standing on it, the lower id moved in and the higher id was refused.
C5_Testigo ==
  \E a, b \in IdsRobots :
    /\ a < b
    /\ propuestas[a] = propuestas[b]
    /\ propuestas[a] # pos_ant[a]
    /\ propuestas[b] # pos_ant[b]
    /\ resultado[a] = "mueve"
    /\ resultado[b] = "alto"
    /\ eventos_alto >= 1

\* C6: puede_moverse(actual, siguiente, t) is true exactly when the table
\* holds no vertex reservation (siguiente, t) and no reservation of the
\* opposite edge (siguiente -> actual, t), and the call leaves the table as
\* it was.
C6_PuedeMoverse ==
  \A actual, siguiente \in CeldasTransitables :
    LET pm == puede_moverse(sim.tabla, actual, siguiente, tick)
    IN /\ pm.ret = ( /\ ClaveCelda(siguiente, tick) \notin DOMAIN reserva_celdas
                     /\ ClaveArista(siguiente, actual, tick) \notin DOMAIN reserva_aristas )
       /\ pm.tabla = sim.tabla

\* C6 witness: a table in which some move is refused by the edge test alone,
\* another by the vertex test, and a third is allowed.
C6_Testigo ==
  /\ \E actual, siguiente \in CeldasTransitables :
       /\ ClaveCelda(siguiente, tick) \notin DOMAIN reserva_celdas
       /\ ClaveArista(siguiente, actual, tick) \in DOMAIN reserva_aristas
       /\ ~puede_moverse(sim.tabla, actual, siguiente, tick).ret
  /\ \E actual, siguiente \in CeldasTransitables :
       /\ ClaveCelda(siguiente, tick) \in DOMAIN reserva_celdas
       /\ ~puede_moverse(sim.tabla, actual, siguiente, tick).ret
  /\ \E actual, siguiente \in CeldasTransitables :
       puede_moverse(sim.tabla, actual, siguiente, tick).ret

\* C7: every robot stands on an in-bounds cell of kind LIBRE or ESTACION.
C7_PosTransitable ==
  \A r \in IdsRobots :
    /\ en_rango(pos(r)[1], pos(r)[2])
    /\ valor_grid(pos(r)[1], pos(r)[2]) \in {LIBRE, ESTACION}

\* C7 witness: a robot that has driven at least three cells and stands on a
\* station cell.
C7_Testigo ==
  \E r \in IdsRobots :
    /\ lista_robots[r].celdas_movidas >= 3
    /\ valor_grid(pos(r)[1], pos(r)[2]) = ESTACION

\* C8: in every step each robot keeps its cell or moves to one of the four
\* orthogonal neighbours of it.
C8_PasoOrtogonal ==
  \A r \in IdsRobots : pos(r) = pos_ant[r] \/ Manhattan(pos(r), pos_ant[r]) = 1

\* C8 witness: a robot that moved in the very step that assigned it its order.
C8_Testigo ==
  \E r \in IdsRobots :
    /\ pos(r) # pos_ant[r]
    /\ lista_robots[r].estado = "A_RECOGER"
    /\ \E i \in DOMAIN pedidos :
         /\ pedidos[i].pedido_id = lista_robots[r].pedido_id
         /\ pedidos[i].tick_asignacion = tick - 1

\* C9: an assigned order was assigned no earlier than it was created; a
\* completed order was assigned, and completed no earlier than assigned.
C9_OrdenDeTicks ==
  \A i \in DOMAIN pedidos :
    /\ pedidos[i].tick_asignacion # NoneInt =>
         pedidos[i].tick_creacion <= pedidos[i].tick_asignacion
    /\ pedidos[i].tick_completado # NoneInt =>
         /\ pedidos[i].tick_asignacion # NoneInt
         /\ pedidos[i].tick_asignacion <= pedidos[i].tick_completado

\* C9 witness: an order created after tick 0 that has been completed.
C9_Testigo ==
  \E i \in DOMAIN pedidos :
    /\ pedidos[i].tick_creacion > 0
    /\ pedidos[i].tick_completado # NoneInt

\* C10: at every tick boundary an INACTIVO robot has no order and an empty
\* route, and a robot in A_RECOGER, A_ESTACION or RETORNO has its order, its
\* shelf home and its dock set.
C10_EstadoYPedido ==
  \A r \in IdsRobots :
    /\ lista_robots[r].estado \in {"INACTIVO", "A_RECOGER", "A_ESTACION", "RETORNO"}
    /\ lista_robots[r].estado = "INACTIVO" =>
         /\ lista_robots[r].pedido_id = NoneInt
         /\ lista_robots[r].ruta = << >>
    /\ lista_robots[r].estado # "INACTIVO" =>
         /\ lista_robots[r].pedido_id # NoneInt
         /\ lista_robots[r].anaquel_home # NoneCelda
         /\ lista_robots[r].estacion_dock # NoneCelda

\* C10 witness: a robot back in INACTIVO after carrying an order through, next
\* to a robot that is on a leg.
C10_Testigo ==
  /\ \E r \in IdsRobots :
       /\ lista_robots[r].estado = "INACTIVO"
       /\ lista_robots[r].ticks_ocupado > 0
       /\ \E i \in DOMAIN pedidos : pedidos[i].tick_completado # NoneInt
  /\ \E r \in IdsRobots : lista_robots[r].estado \in {"A_ESTACION", "RETORNO"}


\* ---- order lifecycle
Veces(lista, v) == Cardinality({k \in DOMAIN lista : lista[k] = v})

Portadores(i) == {r \in IdsRobots : lista_robots[r].pedido_id = pedidos[i].pedido_id}

\* 1 not yet released, 2 pending, 3 carried by a robot, 4 completed
Lugar(i) ==
  IF Veces(no_liberados, i) > 0 THEN 1
  ELSE IF Veces(pendientes, i) > 0 THEN 2
  ELSE IF Portadores(i) # {} THEN 3
  ELSE IF pedidos[i].tick_completado # NoneInt THEN 4
  ELSE 0

EnUnSoloLugar(i) ==
  LET en_nl == Veces(no_liberados, i)
      en_p == Veces(pendientes, i)
      port == Portadores(i)
      hecho == pedidos[i].tick_completado # NoneInt
  IN \/ en_nl = 1 /\ en_p = 0 /\ port = {} /\ ~hecho
     \/ en_nl = 0 /\ en_p = 1 /\ port = {} /\ ~hecho
     \/ /\ en_nl = 0 /\ en_p = 0 /\ ~hecho
        /\ Cardinality(port) = 1
        /\ \A r \in port : lista_robots[r].estado # "INACTIVO"
     \/ en_nl = 0 /\ en_p = 0 /\ port = {} /\ hecho

\* C11: at every tick boundary each order is in exactly one place: once in
\* no_liberados, once in pendientes, carried by exactly one non-idle robot and in
\* neither list, or completed and in neither list and on no robot; and across a
\* step an order stays where it is or moves forward through these places.
C11_CicloDeVida ==
  [][\A i \in DOMAIN pedidos :
        /\ EnUnSoloLugar(i)
        /\ EnUnSoloLugar(i)'
        /\ Lugar(i)' >= Lugar(i)]_vars

\* one order completed while another is being carried
C11_Testigo ==
  \E i, j \in DOMAIN pedidos : Lugar(i) = 4 /\ Lugar(j) = 3

\* ---- failed assignments
\* C12: when an assignment fails because a_estrella finds no route to the chosen
\* order's pickup cell, pendientes after the attempt is the same sequence as
\* before it: the order is back at the position it had.
C12_PendientesIntacta ==
  \A k \in DOMAIN intentos :
    intentos[k].fin = "sin_ruta" =>
      intentos[k].pendientes_despues = intentos[k].pendientes_antes

Fallidos == { "sin_candidato", "sin_pickup", "sin_ruta" }

\* C13: after an assignment attempt that fails (no candidate order, no pickup
\* neighbour, or no route) the robot is INACTIVO with pedido_id, anaquel_home and
\* estacion_dock None and an empty ruta, its position and counters are what they
\* were before the attempt, and the order it had chosen, if any, has
\* tick_asignacion None and is in pendientes.
C13_AsignacionRevertida ==
  \A k \in DOMAIN intentos :
    intentos[k].fin \in Fallidos =>
      LET a == intentos[k].robot_antes
          d == intentos[k].robot_despues
      IN /\ d.estado = "INACTIVO"
         /\ d.pedido_id = NoneInt
         /\ d.anaquel_home = NoneCelda
         /\ d.estacion_dock = NoneCelda
         /\ d.ruta = << >>
         /\ d.pos = a.pos
         /\ d.idx_ruta = a.idx_ruta
         /\ d.ticks_espera = a.ticks_espera
         /\ d.celdas_movidas = a.celdas_movidas
         /\ d.ticks_ocupado = a.ticks_ocupado
         /\ intentos[k].pedido # NoneInt =>
              /\ intentos[k].tick_asignacion = NoneInt
              /\ Veces(intentos[k].pendientes_despues, intentos[k].pedido) = 1

\* a robot that has already delivered an order finds no route to the order it
\* chose next
C13_Testigo ==
  \E k \in DOMAIN intentos :
    /\ intentos[k].fin = "sin_ruta"
    /\ intentos[k].pedido # NoneInt
    /\ intentos[k].robot_antes.celdas_movidas > 0
    /\ intentos[k].robot_antes.ticks_ocupado > 0

\* ---- robot state machine
Tramos == { << "A_RECOGER", "A_ESTACION" >>, << "A_ESTACION", "RETORNO" >>,
            << "RETORNO", "INACTIVO" >> }

\* the attempts of the last step in which robot r was given an order
AsignacionesDe(r) ==
  { k \in DOMAIN intentos : intentos[k].robot_id = r /\ intentos[k].fin = "asignado" }

\* the leg transitions robot r made in the last step
TramosDe(r) ==
  { k \in DOMAIN tramos : tramos[k].robot_id = r /\ tramos[k].fin = "ok" }

\* C14: a robot's estado changes only by an assignment (INACTIVO to A_RECOGER)
\* or by one of the three leg transitions A_RECOGER to A_ESTACION, A_ESTACION to
\* RETORNO, RETORNO to INACTIVO; a leg transition fires only when the robot
\* stands on the last cell of its route (idx_ruta = len(ruta) - 1), at most one
\* fires per robot per step, and RETORNO to INACTIVO sets the carried order's
\* tick_completado to the tick of that step.
C14_MaquinaDeEstados ==
  [][\A r \in IdsRobots :
        LET e == lista_robots[r].estado
            asignado == AsignacionesDe(r)' # {}
            tras_asignar == IF asignado THEN "A_RECOGER" ELSE e
            hechos == TramosDe(r)'
        IN /\ asignado => e = "INACTIVO"
           /\ Cardinality(hechos) <= 1
           /\ \A k \in hechos :
                LET a == tramos'[k].antes
                    d == tramos'[k].despues
                IN /\ << a.estado, d.estado >> \in Tramos
                   /\ a.estado = tras_asignar
                   /\ d.estado = lista_robots'[r].estado
                   /\ a.ruta # << >>
                   /\ a.idx_ruta = Len(a.ruta) - 1
                   /\ a.pos = a.ruta[Len(a.ruta)]
                   /\ a.estado = "RETORNO" =>
                        pedidos'[a.pedido_id].tick_completado = tick
           /\ hechos = {} => lista_robots'[r].estado = tras_asignar]_vars

\* a robot given an order while standing on its pickup cell: assigned and sent
\* on to the station in the same step
C14_Testigo ==
  \E r \in IdsRobots :
    /\ AsignacionesDe(r) # {}
    /\ \E k \in TramosDe(r) : tramos[k].antes.estado = "A_RECOGER"
    /\ lista_robots[r].estado = "A_ESTACION"

\* ---- failed replans
\* the calls of the last step in which robot r's replan failed
ReplanesFallidosDe(r) ==
  { k \in DOMAIN tramos : tramos[k].robot_id = r /\ tramos[k].fin = "fallo" }

\* C15: when a leg replan fails, the robot keeps the estado, order, route and
\* idx_ruta it had on entering the call, proposes its own cell, commits a wait
\* for tick+1 with no increment of ticks_espera and without being counted in
\* eventos_alto, and in the next step attempts the same replan again.
C15_ReplanFallido ==
  [][\A r \in IdsRobots :
        /\ \A k \in ReplanesFallidosDe(r)' :
             LET a == tramos'[k].antes
                 d == lista_robots'[r]
             IN /\ tramos'[k].despues = a
                /\ d.estado = a.estado
                /\ d.pedido_id = a.pedido_id
                /\ d.ruta = a.ruta
                /\ d.idx_ruta = a.idx_ruta
                /\ d.pos = a.pos
                /\ propuestas'[r] = a.pos
                /\ resultado'[r] = "espera"
                /\ \E c \in DOMAIN bitacora' :
                     /\ bitacora'[c].robot_id = r
                     /\ bitacora'[c].op = "espera"
                     /\ bitacora'[c].celda = a.pos
                     /\ bitacora'[c].tick = tick + 1
                /\ d.ticks_espera = lista_robots[r].ticks_espera
                /\ eventos_alto' - eventos_alto =
                     Cardinality({ q \in IdsRobots : resultado'[q] = "alto" })
        /\ \A k \in ReplanesFallidosDe(r) :
             \E j \in ReplanesFallidosDe(r)' :
               /\ tramos'[j].antes.estado = tramos[k].antes.estado
               /\ tramos'[j].antes.ruta = tramos[k].antes.ruta
               /\ tramos'[j].antes.pedido_id = tramos[k].antes.pedido_id]_vars

\* a robot whose replan towards the station has failed in two steps running
C15_Testigo ==
  \E r \in IdsRobots :
    /\ ReplanesFallidosDe(r) # {}
    /\ lista_robots[r].estado = "A_RECOGER"
    /\ lista_robots[r].ticks_ocupado >= 2
    /\ resultado[r] = "espera"

\* ---- deadlock counter
\* C16: in each step conteo_deadlock grows by exactly 1 if no robot changed
\* position in the step's resolve pass and at least one robot is not INACTIVO
\* after the step's leg transitions, and is otherwise unchanged; it never
\* decreases, and the step completes (tick advances) whatever its value.
C16_ConteoDeadlock ==
  [][/\ conteo_deadlock' =
          conteo_deadlock +
          (IF /\ \A r \in IdsRobots : lista_robots'[r].pos = lista_robots[r].pos
              /\ \E r \in IdsRobots : lista_robots'[r].estado # "INACTIVO"
           THEN 1 ELSE 0)
     /\ conteo_deadlock' >= conteo_deadlock
     /\ tick' = tick + 1]_vars

\* the counter has grown in an earlier step and stood still in the last one,
\* in which a robot moved while another was still busy and stuck
C16_Testigo ==
  /\ conteo_deadlock >= 1
  /\ \E r \in IdsRobots : lista_robots[r].pos # pos_ant[r]
  /\ \E r \in IdsRobots :
       lista_robots[r].pos = pos_ant[r] /\ lista_robots[r].estado # "INACTIVO"

(* ------------------------------------------------------------------ *)
(* The planner called on its own: a_estrella(grid, inicio, meta) on    *)
(* several grids, for every pair of cells in or just outside the grid  *)
(* ------------------------------------------------------------------ *)

\* grids handed to the planner: the warehouse, a ring with a walled core and
\* an enclosed cell, a block with a detour, and an open floor around a shelf
Mapas ==
  { LayoutAlmacen.grid,
    << << 0, 0, 0, 0, 0 >>,
       << 0, 3, 3, 3, 0 >>,
       << 0, 0, 2, 3, 0 >>,
       << 3, 3, 0, 3, 0 >>,
       << 0, 3, 0, 0, 0 >> >>,
    << << 0, 0, 0, 0, 0 >>,
       << 0, 1, 1, 1, 0 >>,
       << 0, 0, 0, 1, 0 >>,
       << 0, 1, 0, 0, 0 >> >>,
    << << 0, 0, 0, 0 >>,
       << 0, 1, 0, 0 >>,
       << 0, 0, 2, 0 >> >> }

\* a layout with the grid g and no shelves or stations
LayoutDe(g) == [grid |-> g, anaquel_home |-> << >>, estacion_dock |-> << >>]

\* the cells of the grid and the ring of cells just outside it
CeldasConsulta == ((0 - 1) .. ancho) \X ((0 - 1) .. alto)

InitPlan ==
  /\ layout \in { LayoutDe(g) : g \in Mapas }
  /\ sim = SimAlmacen(0, << >>, << >>)
  /\ plan = SinPlan

\* one call per run
Planear ==
  /\ plan = SinPlan
  /\ \E inicio \in CeldasConsulta, meta \in CeldasConsulta :
       plan' = [inicio |-> inicio, meta |-> meta, ruta |-> a_estrella(inicio, meta)]
  /\ UNCHANGED << sim, layout >>

NextPlan == Planear

SpecPlan == InitPlan /\ [][NextPlan]_vars

\* in bounds and LIBRE or ESTACION
CeldaValida(c) == en_rango(c[1], c[2]) /\ transitable(c[1], c[2])

Vecinas(c) == { d \in CeldasTransitables : Manhattan(c, d) = 1 }

\* breadth-first layers from the frontier: the number of the layer that holds
\* meta, or NoneInt when the layers run out
RECURSIVE Capas(_, _, _, _)
Capas(frontera, vistas, meta, d) ==
  IF meta \in frontera THEN d
  ELSE IF frontera = {} THEN NoneInt
  ELSE LET nuevas == (UNION { Vecinas(c) : c \in frontera }) \ vistas
       IN Capas(nuevas, vistas \cup nuevas, meta, d + 1)

\* shortest 4-connected distance over transitable cells between two valid cells
DistanciaBFS(inicio, meta) == Capas({inicio}, {inicio}, meta, 0)

\* C18: a_estrella returns None exactly when inicio or meta is out of bounds or
\* not transitable or meta cannot be reached from inicio through transitable
\* cells; otherwise it returns a path that starts at inicio, ends at meta, whose
\* consecutive cells are 4-adjacent and whose cells are all in bounds and
\* transitable; for inicio = meta it is the one-cell path.
C18_RutaValida ==
  plan # SinPlan =>
    LET inicio == plan.inicio
        meta == plan.meta
        ruta == plan.ruta
        sin_ruta == \/ ~CeldaValida(inicio)
                    \/ ~CeldaValida(meta)
                    \/ DistanciaBFS(inicio, meta) = NoneInt
    IN /\ (ruta = NoneCelda) <=> sin_ruta
       /\ ruta # NoneCelda =>
            /\ ruta[1] = inicio
            /\ ruta[Len(ruta)] = meta
            /\ \A k \in 1 .. Len(ruta) - 1 : Manhattan(ruta[k], ruta[k + 1]) = 1
            /\ \A k \in 1 .. Len(ruta) : CeldaValida(ruta[k])
            /\ inicio = meta => ruta = << inicio >>

\* a route that has to go around a wall, on a grid that also has calls
\* answered None
C18_Testigo ==
  /\ plan # SinPlan
  /\ plan.ruta # NoneCelda
  /\ Len(plan.ruta) - 1 > Manhattan(plan.inicio, plan.meta)
  /\ \E c \in CeldasTransitables : DistanciaBFS(plan.inicio, c) = NoneInt

\* C19: whenever a_estrella returns a path, len(path) - 1 is the breadth-first
\* shortest 4-connected distance from inicio to meta over transitable cells,
\* hence at least the Manhattan distance, and equal to it when a shortest path
\* of that length exists.
C19_RutaMinima ==
  (plan # SinPlan /\ plan.ruta # NoneCelda) =>
    /\ Len(plan.ruta) - 1 = DistanciaBFS(plan.inicio, plan.meta)
    /\ Len(plan.ruta) - 1 >= Manhattan(plan.inicio, plan.meta)

\* a shortest route four cells longer than the Manhattan distance
C19_Testigo ==
  /\ plan # SinPlan
  /\ plan.ruta # NoneCelda
  /\ DistanciaBFS(plan.inicio, plan.meta) = Manhattan(plan.inicio, plan.meta) + 4
  /\ Len(plan.ruta) = Manhattan(plan.inicio, plan.meta) + 5

(* ------------------------------------------------------------------ *)
(* Scenario S1 and its neighbours: a 5x5 floor inside a BLOQUEADO      *)
(* border, a shelf at (3,3), a station with dock (1,3), one robot and  *)
(* one order.  S1 itself spawns the robot at (1,1) and creates the     *)
(* order at tick 0; the runs around it vary the spawn cell and the     *)
(* creation tick.                                                      *)
(* ------------------------------------------------------------------ *)

MaxTickS1 == 21
MaxCreacionS1 == 2

LayoutS1 ==
  [grid |-> << << 3, 3, 3, 3, 3 >>,
               << 3, 0, 0, 0, 3 >>,
               << 3, 0, 0, 0, 3 >>,
               << 3, 2, 0, 1, 3 >>,
               << 3, 3, 3, 3, 3 >> >>,
   anaquel_home |-> (0 :> <<3, 3>>),
   estacion_dock |-> (0 :> <<1, 3>>)]

InitS1 ==
  /\ layout = LayoutS1
  /\ plan = SinPlan
  /\ \E x \in 1 .. 3, y \in 1 .. 3, t \in 0 .. MaxCreacionS1 :
       /\ LayoutS1.grid[y + 1][x + 1] \in {LIBRE, ESTACION}
       /\ sim = SimAlmacen(1, << <<x, y>> >>, (0 :> Pedido(0, 0, 0, t)))

StepS1 ==
  /\ sim.tick < MaxTickS1
  /\ sim' = step(sim)
  /\ UNCHANGED << layout, plan >>

NextS1 == StepS1

SpecS1 == InitS1 /\ [][NextS1]_vars

\* the run is S1: the robot was spawned at (1,1) (its reservation for tick 0
\* stays in the table) and the order was created at tick 0
EsS1 ==
  /\ layout = LayoutS1
  /\ << 1, 1, 0 >> \in DOMAIN reserva_celdas
  /\ pedidos[0].tick_creacion = 0

\* C20: in scenario S1 the order is completed by tick 20: once the steps of
\* ticks 0 to 20 have run, its tick_completado is set and is at most 20.
C20_S1Completa ==
  (EsS1 /\ tick > 20) =>
    /\ pedidos[0].tick_completado # NoneInt
    /\ pedidos[0].tick_completado <= 20

\* S1 after 21 steps, the order completed and the robot idle on the pickup cell
C20_Testigo ==
  /\ EsS1
  /\ tick > 20
  /\ pedidos[0].tick_completado \in 0 .. 20
  /\ lista_robots[0].estado = "INACTIVO"
  /\ lista_robots[0].pos = << 2, 3 >>

\* metricas()["distancia_total_celdas"]: sum of celdas_movidas over the robots
RECURSIVE suma_celdas_movidas(_, _)
suma_celdas_movidas(robots, i) ==
  IF i \notin DOMAIN robots THEN 0
  ELSE robots[i].celdas_movidas + suma_celdas_movidas(robots, i + 1)

distancia_total_celdas == suma_celdas_movidas(lista_robots, 0)

\* C21: in scenario S1, once the order is completed the sum of celdas_movidas
\* over the robots is at least 8.
C21_S1AlMenosOcho ==
  (EsS1 /\ pedidos[0].tick_completado # NoneInt) => distancia_total_celdas >= 8

\* C21 as the code has it: in scenario S1, once the order is completed the sum
\* of celdas_movidas is exactly 5 (3 cells to the pickup cell (2,3), 1 to the
\* dock (1,3), 1 back to the pickup cell), and it stays 5.
C21_S1CincoCeldas ==
  (EsS1 /\ pedidos[0].tick_completado # NoneInt) => distancia_total_celdas = 5

\* S1 in the step that completed the order: the robot has just gone idle
C21_Testigo ==
  /\ EsS1
  /\ pedidos[0].tick_completado # NoneInt
  /\ tick = pedidos[0].tick_completado + 1
  /\ distancia_total_celdas = 5
  /\ \E k \in DOMAIN tramos : tramos[k].antes.estado = "RETORNO"

(* ------------------------------------------------------------------ *)
(* Scenario S2 and its neighbours: a corridor one cell wide (y = 1)    *)
(* between BLOQUEADO rows, a shelf above each of (1,1) and (5,1), a    *)
(* dock at each end, two robots and one order per shelf, each to be    *)
(* delivered at the far end.  S2 itself spawns the robots at (1,1) and *)
(* (5,1) and creates both orders at tick 0, so that each robot picks   *)
(* up on its own cell and is routed towards the other.                 *)
(* ------------------------------------------------------------------ *)

MaxTickS2 == 12
MaxCreacionS2 == 1

LayoutS2 ==
  [grid |-> << << 3, 1, 3, 3, 3, 1, 3 >>,
               << 2, 0, 0, 0, 0, 0, 2 >>,
               << 3, 3, 3, 3, 3, 3, 3 >> >>,
   anaquel_home |-> (0 :> <<1, 0>>) @@ (1 :> <<5, 0>>),
   estacion_dock |-> (0 :> <<6, 1>>) @@ (1 :> <<0, 1>>)]

InitS2 ==
  /\ layout = LayoutS2
  /\ plan = SinPlan
  /\ \E x0 \in 0 .. 6, x1 \in 0 .. 6, t \in 0 .. MaxCreacionS2 :
       /\ x0 < x1
       /\ sim = SimAlmacen(2, << <<x0, 1>>, <<x1, 1>> >>,
                           (0 :> Pedido(0, 0, 0, 0)) @@ (1 :> Pedido(1, 1, 1, t)))

StepS2 ==
  /\ sim.tick < MaxTickS2
  /\ sim' = step(sim)
  /\ UNCHANGED << layout, plan >>

NextS2 == StepS2

SpecS2 == InitS2 /\ [][NextS2]_vars

\* the run is S2: robots spawned at (1,1) and (5,1), both orders created at tick 0
EsS2 ==
  /\ layout = LayoutS2
  /\ << 1, 1, 0 >> \in DOMAIN reserva_celdas
  /\ << 5, 1, 0 >> \in DOMAIN reserva_celdas
  /\ pedidos[1].tick_creacion = 0

\* C22: in scenario S2 the two robots never occupy the same cell and never pass
\* through each other, at most one of them commits a move in a tick in which
\* their proposals conflict, and in every tick in which neither advances while
\* one is busy conteo_deadlock grows by exactly 1.
C22_S2SinColision ==
  [][EsS2 =>
       LET p0 == lista_robots[0].pos
           p1 == lista_robots[1].pos
           q0 == lista_robots'[0].pos
           q1 == lista_robots'[1].pos
           disputa == \/ propuestas'[0] = propuestas'[1]
                      \/ propuestas'[0] = p1
                      \/ propuestas'[1] = p0
       IN /\ q0 # q1
          /\ ~(q0 = p1 /\ q1 = p0)
          /\ q0[1] < q1[1]
          /\ disputa => ~(resultado'[0] = "mueve" /\ resultado'[1] = "mueve")
          /\ (/\ q0 = p0
              /\ q1 = p1
              /\ \E r \in IdsRobots : lista_robots'[r].estado # "INACTIVO")
             => conteo_deadlock' = conteo_deadlock + 1]_vars

(* ------------------------------------------------------------------ *)
(* Scenario S3 and its neighbours: a corridor at y = 2, shelves above  *)
(* (2,2) and (3,2), docks at both ends, two robots and one order per   *)
(* shelf, each to be delivered at the far end.  S3 itself spawns the   *)
(* robots on (2,2) and (3,2): each picks up on its own cell and its    *)
(* route to the dock starts with the other's cell.                     *)
(* ------------------------------------------------------------------ *)

MaxTickS3 == 10
MaxCreacionS3 == 1

LayoutS3 ==
  [grid |-> << << 3, 3, 3, 3, 3, 3 >>,
               << 3, 3, 1, 1, 3, 3 >>,
               << 2, 0, 0, 0, 0, 2 >>,
               << 3, 3, 3, 3, 3, 3 >> >>,
   anaquel_home |-> (0 :> <<2, 1>>) @@ (1 :> <<3, 1>>),
   estacion_dock |-> (0 :> <<5, 2>>) @@ (1 :> <<0, 2>>)]

InitS3 ==
  /\ layout = LayoutS3
  /\ plan = SinPlan
  /\ \E x0 \in 0 .. 5, x1 \in 0 .. 5, t \in 0 .. MaxCreacionS3 :
       /\ x0 < x1
       /\ sim = SimAlmacen(2, << <<x0, 2>>, <<x1, 2>> >>,
                           (0 :> Pedido(0, 0, 0, 0)) @@ (1 :> Pedido(1, 1, 1, t)))

StepS3 ==
  /\ sim.tick < MaxTickS3
  /\ sim' = step(sim)
  /\ UNCHANGED << layout, plan >>

NextS3 == StepS3

SpecS3 == InitS3 /\ [][NextS3]_vars

\* the run is S3: robots spawned on (2,2) and (3,2), both orders created at tick 0
EsS3 ==
  /\ layout = LayoutS3
  /\ << 2, 2, 0 >> \in DOMAIN reserva_celdas
  /\ << 3, 2, 0 >> \in DOMAIN reserva_celdas
  /\ pedidos[1].tick_creacion = 0

\* C23: in scenario S3, in a tick in which the two adjacent robots each propose
\* the other's cell, the robots do not exchange cells, one of the two stays on
\* its own cell for that tick, and eventos_alto is at least 1 afterwards.
C23_S3SinIntercambio ==
  [][(/\ EsS3
      /\ lista_robots[0].pos # lista_robots[1].pos
      /\ propuestas'[0] = lista_robots[1].pos
      /\ propuestas'[1] = lista_robots[0].pos)
     => /\ ~(/\ lista_robots'[0].pos = lista_robots[1].pos
             /\ lista_robots'[1].pos = lista_robots[0].pos)
        /\ \E r \in IdsRobots : lista_robots'[r].pos = lista_robots[r].pos
        /\ eventos_alto' >= 1]_vars

\* S3 after its first step: both robots had proposed the other's cell
C23_Testigo ==
  /\ EsS3
  /\ tick = 1
  /\ pos_ant[0] = << 2, 2 >>
  /\ pos_ant[1] = << 3, 2 >>
  /\ propuestas[0] = << 3, 2 >>
  /\ propuestas[1] = << 2, 2 >>
  /\ eventos_alto = 1

(* ------------------------------------------------------------------ *)
(* Scenario S5: a shelf without pickup cell                            *)
(* ------------------------------------------------------------------ *)

\* the shelf of order i has no transitable cell next to it inside the grid
SinVecinoTransitable(i) ==
  ~ \E c \in CeldasTransitables : Manhattan(c, anaquel_home_de[pedidos[i].anaquel_id]) = 1

\* C24: an order whose shelf has no in-bounds transitable neighbour is never
\* assigned and never completed: tick_asignacion and tick_completado stay None,
\* no robot carries it and, once released, it stays in pendientes; every step
\* still completes, with tick advancing by 1.
C24_S5NuncaAsignado ==
  [][/\ tick' = tick + 1
     /\ \A i \in DOMAIN pedidos :
          SinVecinoTransitable(i) =>
            /\ pedidos'[i].tick_asignacion = NoneInt
            /\ pedidos'[i].tick_completado = NoneInt
            /\ \A r \in IdsRobots : lista_robots'[r].pedido_id # pedidos[i].pedido_id
            /\ Veces(pendientes, i) = 1 => Veces(pendientes', i) = 1
            /\ Veces(no_liberados, i) = 0 => Veces(pendientes, i) = 1]_vars

\* the order without pickup cell is still pending at the last tick, after the
\* other order of the run was completed by a robot that is idle again
C24_Testigo ==
  /\ tick = MaxTick
  /\ \E i, j \in DOMAIN pedidos :
       /\ SinVecinoTransitable(i)
       /\ Veces(pendientes, i) = 1
       /\ pedidos[j].tick_completado # NoneInt
       /\ \A r \in IdsRobots : lista_robots[r].estado = "INACTIVO"

(* ------------------------------------------------------------------ *)
(* Scenario S6: no orders                                              *)
(* ------------------------------------------------------------------ *)

\* robot r stands on the cell the constructor reserved for it at tick 0
EnSuSpawn(r) ==
  LET clave == << lista_robots[r].pos[1], lista_robots[r].pos[2], 0 >>
  IN clave \in DOMAIN reserva_celdas /\ reserva_celdas[clave] = lista_robots[r].robot_id

\* C25: with an empty order list, after any number of steps every robot is
\* INACTIVO at its spawn cell, conteo_deadlock = 0, eventos_alto = 0 and every
\* robot's ticks_ocupado is 0.
C25_S6TodoInactivo ==
  DOMAIN pedidos = {} =>
    /\ conteo_deadlock = 0
    /\ eventos_alto = 0
    /\ \A r \in IdsRobots :
         /\ lista_robots[r].estado = "INACTIVO"
         /\ EnSuSpawn(r)
         /\ lista_robots[r].celdas_movidas = 0
         /\ lista_robots[r].ticks_ocupado = 0

\* two robots and no orders, at the last tick
C25_Testigo ==
  /\ DOMAIN pedidos = {}
  /\ Cardinality(IdsRobots) = 2
  /\ tick = MaxTick
  /\ \A r \in IdsRobots : resultado[r] = "espera"

(* ------------------------------------------------------------------ *)
(* Completed orders                                                    *)
(* ------------------------------------------------------------------ *)

\* metricas(): the orders with tick_completado set
completados == { i \in DOMAIN pedidos : pedidos[i].tick_completado # NoneInt }

\* C26: the number of completed orders never decreases from one tick to the
\* next, and a tick_completado once set is never changed or cleared.
C26_CompletadosMonotono ==
  [][/\ Cardinality(completados') >= Cardinality(completados)
     /\ \A i \in completados :
          pedidos'[i].tick_completado = pedidos[i].tick_completado]_vars

\* two orders completed at different ticks
C26_Testigo ==
  \E i, j \in completados :
    pedidos[i].tick_completado < pedidos[j].tick_completado

(* ------------------------------------------------------------------ *)
(* Construction: the runs start before SimAlmacen(...) is called, with *)
(* the arguments of the call, among them spawn lists shorter than the  *)
(* number of robots and a grid with a cell value that is none of       *)
(* LIBRE, ANAQUEL, ESTACION, BLOQUEADO.                                *)
(* ------------------------------------------------------------------ *)

MaxTickCons == 8
MaxCreacionCons == 1
ValorDesconocido == 7

\* a corridor of two rows; the shelf's pickup cell is (1,1), the dock (4,1)
LayoutPasillo ==
  [grid |-> << << 3, 1, 3, 3, 3 >>,
               << 0, 0, 0, 0, 2 >>,
               << 0, 0, 0, 0, 3 >>,
               << 3, 3, 3, 3, 3 >> >>,
   anaquel_home |-> (0 :> <<1, 0>>),
   estacion_dock |-> (0 :> <<4, 1>>)]

\* the same warehouse with an unknown value on the corridor cell (2,1)
LayoutInvalido ==
  [LayoutPasillo EXCEPT !.grid[2][3] = ValorDesconocido]

CeldasSpawnCons == { <<0, 1>>, <<1, 1>>, <<3, 1>>, <<0, 2>> }

ListasSpawnCons(n) ==
  { f \in [1 .. n -> CeldasSpawnCons] : \A i, j \in 1 .. n : i # j => f[i] # f[j] }

ListasPedidosCons ==
  { [i \in 0 .. (m - 1) |-> Pedido(i, 0, 0, t)] : m \in 0 .. 1, t \in 0 .. MaxCreacionCons }

\* the constructor is about to be called with these arguments
Llamada(robots, puntos_spawn, lista_pedidos) ==
  [llamada |-> [robots |-> robots, puntos_spawn |-> puntos_spawn,
                pedidos |-> lista_pedidos]]

PorConstruir == "llamada" \in DOMAIN sim
Construido == "tick" \in DOMAIN sim

InitCons ==
  /\ layout \in { LayoutPasillo, LayoutInvalido }
  /\ plan = SinPlan
  /\ \E n \in 1 .. MaxRobots, k \in 0 .. MaxRobots :
       \E puntos_spawn \in ListasSpawnCons(k), lista_pedidos \in ListasPedidosCons :
         sim = Llamada(n, puntos_spawn, lista_pedidos)

Construir ==
  /\ PorConstruir
  /\ sim' = SimAlmacen(sim.llamada.robots, sim.llamada.puntos_spawn, sim.llamada.pedidos)
  /\ UNCHANGED << layout, plan >>

StepCons ==
  /\ Construido
  /\ sim.tick < MaxTickCons
  /\ sim' = step(sim)
  /\ UNCHANGED << layout, plan >>

NextCons == Construir \/ StepCons

SpecCons == InitCons /\ [][NextCons]_vars

\* C27: constructing SimAlmacen with fewer spawn points than robots fails with
\* RuntimeError and yields no simulator (nothing can be stepped afterwards); with
\* at least as many spawn points as robots, robot i is created INACTIVO at
\* puntos_spawn[i] with all counters 0 and a vertex reservation on its cell at
\* tick 0.
C27_Construccion ==
  [][/\ sim # ErrorSpawn
     /\ PorConstruir =>
          IF Len(sim.llamada.puntos_spawn) < sim.llamada.robots
          THEN sim' = ErrorSpawn /\ ~Construido'
          ELSE /\ Construido'
               /\ tick' = 0
               /\ conteo_deadlock' = 0
               /\ eventos_alto' = 0
               /\ DOMAIN lista_robots' = 0 .. (sim.llamada.robots - 1)
               /\ \A i \in DOMAIN lista_robots' :
                    LET r == lista_robots'[i]
                        p == sim.llamada.puntos_spawn[i + 1]
                    IN /\ r.robot_id = i
                       /\ r.estado = "INACTIVO"
                       /\ r.pos = p
                       /\ r.pedido_id = NoneInt
                       /\ r.ruta = << >>
                       /\ r.idx_ruta = 0
                       /\ r.ticks_espera = 0
                       /\ r.celdas_movidas = 0
                       /\ r.ticks_ocupado = 0
                       /\ << p[1], p[2], 0 >> \in DOMAIN reserva_celdas'
                       /\ reserva_celdas'[<< p[1], p[2], 0 >>] = i]_vars

\* a call with too few spawn points has raised
C27_Testigo == sim = ErrorSpawn

\* a call with more spawn points than robots has built its simulator, which ran
C27_TestigoConstruido ==
  /\ Construido
  /\ Cardinality(IdsRobots) = 1
  /\ tick = MaxTickCons
  /\ Cardinality({ k \in DOMAIN reserva_celdas : k[3] = 0 }) = 1

\* ---- unknown cell values
CeldasDesconocidas ==
  { c \in (0 .. (ancho - 1)) \X (0 .. (alto - 1)) :
      valor_grid(c[1], c[2]) \notin {LIBRE, ANAQUEL, ESTACION, BLOQUEADO} }

GridInvalido == CeldasDesconocidas # {}

\* C28 as stated: a grid with a cell value outside {0, 1, 2, 3} is rejected at
\* construction; no simulator runs on such a grid.
C28_GridInvalidoRechazado == GridInvalido => ~Construido

\* C28, amended: a grid with a cell value outside {0, 1, 2, 3} is not rejected:
\* with enough spawn points the construction succeeds and the simulator runs on
\* that grid, treating such a cell as an obstacle: no route of a robot contains
\* it and no robot moves onto it.
C28_DesconocidoEsObstaculo ==
  [][GridInvalido =>
       /\ (PorConstruir /\ Len(sim.llamada.puntos_spawn) >= sim.llamada.robots)
            => Construido'
       /\ Construido =>
            /\ tick' = tick + 1
            /\ \A r \in IdsRobots :
                 /\ \A k \in DOMAIN lista_robots'[r].ruta :
                      lista_robots'[r].ruta[k] \notin CeldasDesconocidas
                 /\ lista_robots'[r].pos # lista_robots[r].pos
                      => lista_robots'[r].pos \notin CeldasDesconocidas]_vars

\* on the invalid grid a robot carrying its order to the dock is on the detour
\* below the unknown cell
C28_Testigo ==
  /\ GridInvalido
  /\ Construido
  /\ \E r \in IdsRobots :
       /\ lista_robots[r].estado = "A_ESTACION"
       /\ lista_robots[r].pos = << 2, 2 >>
       /\ lista_robots[r].celdas_movidas > 0

(* ------------------------------------------------------------------ *)
(* Effects of the resolve loop                                         *)
(* ------------------------------------------------------------------ *)

\* robot robot_id booked exactly one thing in the step that wrote the log bit:
\* a wait on celda at tick t
SoloEspera(bit, robot_id, celda, t) ==
  LET entradas == { k \in DOMAIN bit : bit[k].robot_id = robot_id }
  IN /\ Cardinality(entradas) = 1
     /\ \A k \in entradas :
          bit[k].op = "espera" /\ bit[k].celda = celda /\ bit[k].tick = t

\* C30: resolve effects per robot in one step.  If its proposal equals its pos,
\* only a wait reservation at tick+1 is added and pos, idx_ruta, celdas_movidas
\* and ticks_espera are unchanged, and it adds nothing to eventos_alto; if the
\* move is allowed, pos becomes the proposed cell and idx_ruta and
\* celdas_movidas each grow by 1 with ticks_espera unchanged; if the move is
\* refused, pos and idx_ruta are unchanged and ticks_espera and eventos_alto
\* each grow by 1.
C30_EfectosResolver ==
  [][/\ \A r \in IdsRobots :
          LET a == pre_resolver'[r]
              b == lista_robots'[r]
              p == propuestas'[r]
          IN /\ (p = a.pos) <=> (resultado'[r] = "espera")
             /\ resultado'[r] \in {"espera", "mueve", "alto"}
             /\ resultado'[r] = "espera" =>
                  /\ b = a
                  /\ SoloEspera(bitacora', a.robot_id, a.pos, tick + 1)
             /\ resultado'[r] = "mueve" =>
                  b = [a EXCEPT !.pos = p, !.idx_ruta = @ + 1, !.celdas_movidas = @ + 1]
             /\ resultado'[r] = "alto" =>
                  /\ b = [a EXCEPT !.ticks_espera = @ + 1]
                  /\ SoloEspera(bitacora', a.robot_id, a.pos, tick + 1)
     /\ eventos_alto' =
          eventos_alto + Cardinality({ r \in IdsRobots : resultado'[r] = "alto" })]_vars

\* a step in which one robot (already two cells into its run) moved and the
\* other was refused
C30_Testigo ==
  /\ \E r, q \in IdsRobots :
       /\ resultado[r] = "mueve"
       /\ resultado[q] = "alto"
       /\ lista_robots[q].ticks_espera >= 1
       /\ lista_robots[r].celdas_movidas >= 2
  /\ eventos_alto >= 1

(* ------------------------------------------------------------------ *)
(* Assignment policy.  The runs of SpecCola are given either a short   *)
(* queue or one longer than the scan limit, all orders created at tick *)
(* 0: every order is for shelf `resto` except the one at position p,   *)
(* which is for shelf `uno`.                                           *)
(* ------------------------------------------------------------------ *)

MaxCola == 52
MaxTickCola == 3

\* (uno, resto): nearer and farther shelves, shelves without pickup cell or
\* without route, on either side
ParesAnaquel == { <<0, 1>>, <<1, 0>>, <<0, 3>>, <<3, 0>>, <<1, 2>>, <<0, 2>> }

LargosCola == { MaxPedidos + 1, MaxCola }

\* positions of the odd order: the head of the queue and around the scan limit
PosicionesCola(n) ==
  { p \in 0 .. (n - 1) : p <= 1 \/ p >= LimiteCola - 2 }

InitCola ==
  /\ layout = LayoutAlmacen
  /\ plan = SinPlan
  /\ \E robots \in 1 .. MaxRobots, n \in LargosCola, par \in ParesAnaquel :
       \E puntos_spawn \in ListasSpawn(robots), p \in PosicionesCola(n) :
         sim = SimAlmacen(robots, puntos_spawn,
                          [i \in 0 .. (n - 1) |->
                             Pedido(i, IF i = p THEN par[1] ELSE par[2], 0, 0)])

StepCola ==
  /\ sim.tick < MaxTickCola
  /\ sim' = step(sim)
  /\ UNCHANGED << layout, plan >>

NextCola == StepCola

SpecCola == InitCola /\ [][NextCola]_vars

\* the pickup cell of a shelf: its first neighbour, in the order (+1,0), (-1,0),
\* (0,+1), (0,-1), that is inside the grid and LIBRE or ESTACION
PickupDe(celda) ==
  LET vecinos == << << celda[1] + 1, celda[2] >>, << celda[1] - 1, celda[2] >>,
                    << celda[1], celda[2] + 1 >>, << celda[1], celda[2] - 1 >> >>
      buenos == { k \in 1 .. 4 : vecinos[k] \in CeldasTransitables }
  IN IF buenos = {} THEN NoneCelda
     ELSE vecinos[CHOOSE k \in buenos : \A j \in buenos : k <= j]

PickupDePedido(i) == PickupDe(anaquel_home_de[pedidos[i].anaquel_id])

\* the positions of the queue an attempt may choose from
Candidatos(cola) ==
  { j \in 1 .. Len(cola) : j <= LimiteCola /\ PickupDePedido(cola[j]) # NoneCelda }

\* C29: for each idle robot in ascending robot_id, the order chosen is, among
\* the first min(50, |pendientes|) entries of pendientes whose shelf has a pickup
\* cell, the one whose pickup cell has minimum Manhattan distance to the robot's
\* pos, the earliest in pendientes among ties; entries beyond the first 50 are
\* never chosen.
C29_PoliticaAsignacion ==
  /\ \A k \in DOMAIN intentos :
       LET cola == intentos[k].pendientes_antes
           desde == intentos[k].robot_antes.pos
           cand == Candidatos(cola)
       IN /\ intentos[k].robot_antes.estado = "INACTIVO"
          /\ IF cand = {} THEN intentos[k].pedido = NoneInt
             ELSE \E j \in cand :
                    /\ intentos[k].pedido = cola[j]
                    /\ \A h \in cand :
                         LET dj == Manhattan(desde, PickupDePedido(cola[j]))
                             dh == Manhattan(desde, PickupDePedido(cola[h]))
                         IN dj < dh \/ (dj = dh /\ j <= h)
  /\ \A k, h \in DOMAIN intentos :
       k < h => intentos[k].robot_id < intentos[h].robot_id

\* an attempt on a queue longer than the limit chose an order although one
\* beyond the limit has a pickup cell nearer to the robot
C29_Testigo ==
  \E k \in DOMAIN intentos :
    LET cola == intentos[k].pendientes_antes
        desde == intentos[k].robot_antes.pos
    IN /\ intentos[k].pedido # NoneInt
       /\ \E h \in DOMAIN cola :
            /\ h > LimiteCola
            /\ PickupDePedido(cola[h]) # NoneCelda
            /\ Manhattan(desde, PickupDePedido(cola[h]))
                 < Manhattan(desde, PickupDePedido(intentos[k].pedido))

(* ------------------------------------------------------------------ *)
(* Order of the effects on the reservation table                       *)
(* ------------------------------------------------------------------ *)

\* C31: in each step the reservation table is written exactly once per robot
\* (one confirmar_movimiento or one confirmar_espera, always for tick+1) in
\* strictly ascending robot_id order, and confirmar_movimiento is called only
\* directly after puede_moverse returned true for the same (actual, siguiente,
\* tick+1), with no table change in between.
C31_EscriturasEnOrden ==
  [][/\ Len(bitacora') = Cardinality(IdsRobots)
     /\ \A k \in DOMAIN bitacora' :
          /\ bitacora'[k].robot_id = lista_robots[k - 1].robot_id
          /\ bitacora'[k].op \in {"movimiento", "espera"}
          /\ bitacora'[k].tick = tick + 1
          /\ k > 1 => bitacora'[k - 1].robot_id < bitacora'[k].robot_id
          /\ bitacora'[k].op = "movimiento" =>
               \E q \in DOMAIN consultas' :
                 /\ consultas'[q].ret
                 /\ consultas'[q].robot_id = bitacora'[k].robot_id
                 /\ consultas'[q].actual = bitacora'[k].desde
                 /\ consultas'[q].siguiente = bitacora'[k].celda
                 /\ consultas'[q].tick = tick + 1
                 /\ consultas'[q].escrituras = k - 1
     \* what the table itself shows: one new cell per write at most, all at tick+1
     /\ \A c \in DOMAIN reserva_celdas' :
          \/ c \in DOMAIN reserva_celdas /\ reserva_celdas'[c] = reserva_celdas[c]
          \/ c[3] = tick + 1 /\ \E k \in DOMAIN bitacora' :
                                  /\ bitacora'[k].celda = << c[1], c[2] >>
                                  /\ bitacora'[k].robot_id <= reserva_celdas'[c]
     /\ \A e \in DOMAIN reserva_aristas' :
          \/ e \in DOMAIN reserva_aristas /\ reserva_aristas'[e] = reserva_aristas[e]
          \/ e[5] = tick + 1 /\ \E k \in DOMAIN bitacora' :
                                  /\ bitacora'[k].op = "movimiento"
                                  /\ bitacora'[k].desde = << e[1], e[2] >>
                                  /\ bitacora'[k].celda = << e[3], e[4] >>
                                  /\ bitacora'[k].robot_id = reserva_aristas'[e]]_vars

\* a step in which robot 0 was allowed to move, robot 1 was refused after it,
\* and both queries are in the log
C31_Testigo ==
  /\ Len(bitacora) = 2
  /\ Len(consultas) = 2
  /\ bitacora[1].op = "movimiento"
  /\ bitacora[2].op = "espera"
  /\ consultas[1].ret
  /\ ~consultas[2].ret
  /\ consultas[2].escrituras = 1

(* ------------------------------------------------------------------ *)
(* Busy accounting                                                     *)
(* ------------------------------------------------------------------ *)

\* robot r was given an order by the assignment of the step just taken
AsignadoEnElPaso(r) ==
  \E k \in DOMAIN intentos :
    intentos[k].robot_id = lista_robots[r].robot_id /\ intentos[k].fin = "asignado"

\* C32: in each step ticks_ocupado grows by exactly 1 for every robot that is
\* non-INACTIVO after that step's assignment and before its leg transition, and
\* by 0 for every other robot; so the step in which a RETORNO robot completes
\* its order and becomes INACTIVO is counted as busy, and so is the step in
\* which a robot is assigned.
C32_TicksOcupado ==
  [][\A r \in IdsRobots :
       LET antes == lista_robots[r]
           despues == lista_robots'[r]
           ocupado == antes.estado # "INACTIVO" \/ AsignadoEnElPaso(r)'
       IN /\ despues.ticks_ocupado = antes.ticks_ocupado + (IF ocupado THEN 1 ELSE 0)
          /\ (antes.estado = "RETORNO" /\ despues.estado = "INACTIVO")
               => despues.ticks_ocupado = antes.ticks_ocupado + 1
          /\ (antes.estado = "INACTIVO" /\ despues.estado # "INACTIVO")
               => despues.ticks_ocupado = antes.ticks_ocupado + 1
          /\ (antes.estado = "INACTIVO" /\ despues.estado = "INACTIVO")
               => despues.ticks_ocupado = antes.ticks_ocupado]_vars

\* right after the step in which a robot completed its order and went idle: the
\* step is counted, and the robot was busy for more ticks than it moved
C32_Testigo ==
  \E r \in IdsRobots :
    /\ lista_robots[r].estado = "INACTIVO"
    /\ pos_ant[r] = lista_robots[r].pos
    /\ lista_robots[r].ticks_ocupado > lista_robots[r].celdas_movidas + 1
    /\ \E i \in DOMAIN pedidos : pedidos[i].tick_completado = tick - 1

(* ------------------------------------------------------------------ *)
(* Release.  The runs of SpecLiberar interleave step() with calls of   *)
(* _liberar_pedidos on the simulator between two steps, at most two    *)
(* per tick; `plan` holds the simulator as it was before the last call *)
(* and how many calls were made at this tick.                          *)
(* ------------------------------------------------------------------ *)

MaxPedidosLib == 3
MaxCreacionLib == 2
MaxTickLib == 3
MaxLlamadas == 2

\* orders of shelf 3 (no pickup cell: they stay queued) and of shelf 0, alternating
ListasPedidosLib ==
  { [i \in 0 .. (MaxPedidosLib - 1) |-> Pedido(i, IF i % 2 = 0 THEN 3 ELSE 0, 0, f[i + 1])] :
      f \in [1 .. MaxPedidosLib -> 0 .. MaxCreacionLib] }

CeldasSpawnLib == { <<0, 1>>, <<2, 2>> }

InitLiberar ==
  /\ layout = LayoutAlmacen
  /\ \E c \in CeldasSpawnLib, lista_pedidos \in ListasPedidosLib :
       sim = SimAlmacen(1, << c >>, lista_pedidos)
  /\ plan = [llamadas |-> 0, antes |-> sim]

Liberar ==
  /\ plan.llamadas < MaxLlamadas
  /\ sim' = liberar_pedidos(sim)
  /\ plan' = [llamadas |-> plan.llamadas + 1, antes |-> sim]
  /\ UNCHANGED layout

StepLiberar ==
  /\ sim.tick < MaxTickLib
  /\ sim' = step(sim)
  /\ plan' = [llamadas |-> 0, antes |-> sim']
  /\ UNCHANGED layout

NextLiberar == Liberar \/ StepLiberar

SpecLiberar == InitLiberar /\ [][NextLiberar]_vars

\* lista is sorted by tick_creacion, ascending
OrdenadaPorCreacion(lista) ==
  \A j, k \in DOMAIN lista :
    j < k => pedidos[lista[j]].tick_creacion <= pedidos[lista[k]].tick_creacion

\* the elements of a sequence without repetition
Elementos(lista) == { lista[k] : k \in DOMAIN lista }

\* C33: after _liberar_pedidos at tick t, no_liberados contains exactly the
\* orders with tick_creacion > t (still sorted ascending by tick_creacion), every
\* order with tick_creacion <= t that was unreleased has been appended to the end
\* of pendientes in ascending tick_creacion order, and the earlier entries of
\* pendientes keep their order; release runs before assignment in step(), so an
\* order created at tick t is out of no_liberados after the step taken at t.
C33_Liberacion ==
  /\ plan.llamadas >= 1 =>
       LET antes == plan.antes
           n == Len(antes.pendientes)
           nuevos == SubSeq(pendientes, n + 1, Len(pendientes))
       IN /\ Elementos(no_liberados) = { i \in DOMAIN pedidos : pedidos[i].tick_creacion > tick }
          /\ Len(no_liberados) = Cardinality(Elementos(no_liberados))
          /\ OrdenadaPorCreacion(no_liberados)
          /\ Len(pendientes) >= n
          /\ SubSeq(pendientes, 1, n) = antes.pendientes
          /\ Elementos(nuevos) =
               { i \in Elementos(antes.no_liberados) : pedidos[i].tick_creacion <= tick }
          /\ Len(nuevos) = Cardinality(Elementos(nuevos))
          /\ OrdenadaPorCreacion(nuevos)
          /\ pedidos = antes.pedidos
          /\ lista_robots = antes.lista_robots
  /\ tick >= 1 =>
       /\ \A i \in Elementos(no_liberados) : pedidos[i].tick_creacion > tick - 1
       /\ \A i \in DOMAIN pedidos :
            pedidos[i].tick_asignacion # NoneInt
              => pedidos[i].tick_creacion <= pedidos[i].tick_asignacion

\* a call that released two orders behind an order that was already queued
C33_Testigo ==
  /\ plan.llamadas = 1
  /\ Len(plan.antes.pendientes) >= 1
  /\ Len(pendientes) = Len(plan.antes.pendientes) + 2
  /\ tick >= 1

\* an order created at tick t >= 1 was assigned at tick t
C33_TestigoMismoTick ==
  \E i \in DOMAIN pedidos :
    pedidos[i].tick_creacion >= 1 /\ pedidos[i].tick_asignacion = pedidos[i].tick_creacion

\* C34: release is idempotent at a fixed tick: calling _liberar_pedidos a second
\* time without changing tick leaves no_liberados, pendientes and every order
\* unchanged.
C34_LiberarIdempotente ==
  plan.llamadas >= 2 =>
    /\ no_liberados = plan.antes.no_liberados
    /\ pendientes = plan.antes.pendientes
    /\ pedidos = plan.antes.pedidos
    /\ sim = plan.antes

\* the second call at a tick at which the first had released an order while
\* another is still to come
C34_Testigo ==
  /\ plan.llamadas = MaxLlamadas
  /\ tick >= 1
  /\ no_liberados # << >>
  /\ \E k \in DOMAIN pendientes : pedidos[pendientes[k]].tick_creacion = tick

(* ------------------------------------------------------------------ *)
(* Look-ahead.  The runs of SpecPoda carry two simulators built from   *)
(* the same arguments and stepped together: `sim`, whose table keeps   *)
(* everything, and plan.podado, whose table may lose its reservations  *)
(* of past ticks between two steps.                                    *)
(* ------------------------------------------------------------------ *)

MaxTickPoda == 6

\* the table without its reservations at ticks before t
sin_pasado(T, t) ==
  [reserva_celdas |-> [c \in { c \in DOMAIN T.reserva_celdas : c[3] >= t } |-> T.reserva_celdas[c]],
   reserva_aristas |-> [e \in { e \in DOMAIN T.reserva_aristas : e[5] >= t } |-> T.reserva_aristas[e]]]

podar(s) == [s EXCEPT !.tabla = sin_pasado(@, s.tick)]

InitPoda ==
  /\ layout = LayoutAlmacen
  /\ \E n \in 1 .. 2 :
       \E puntos_spawn \in ListasSpawn(n), lista_pedidos \in ListasPedidos(2) :
         sim = SimAlmacen(n, puntos_spawn, lista_pedidos)
  /\ plan = [podado |-> sim]

StepPoda ==
  /\ sim.tick < MaxTickPoda
  /\ sim' = step(sim)
  /\ plan' = [podado |-> step(plan.podado)]
  /\ UNCHANGED layout

Podar ==
  /\ podar(plan.podado) # plan.podado
  /\ plan' = [podado |-> podar(plan.podado)]
  /\ UNCHANGED << sim, layout >>

NextPoda == StepPoda \/ Podar

SpecPoda == InitPoda /\ [][NextPoda]_vars

\* positions, states, counters and order timestamps of a simulator
Observable(s) ==
  [tick |-> s.tick, lista_robots |-> s.lista_robots, pedidos |-> s.pedidos,
   pendientes |-> s.pendientes, no_liberados |-> s.no_liberados,
   conteo_deadlock |-> s.conteo_deadlock, eventos_alto |-> s.eventos_alto]

\* C35: look-ahead is exactly one tick: every puede_moverse query and every
\* reservation written by step() at tick t is for tick t+1, so deleting all
\* reservations with tick < current tick between steps produces the same
\* positions, states, counters and order timestamps at every tick as the
\* unpruned run.
C35_PodaEquivalente ==
  /\ Observable(plan.podado) = Observable(sim)
  /\ \A k \in DOMAIN bitacora : bitacora[k].tick = tick
  /\ \A q \in DOMAIN consultas : consultas[q].tick = tick
  /\ \A c \in DOMAIN reserva_celdas : c[3] <= tick
  /\ \A e \in DOMAIN reserva_aristas : e[5] <= tick
  /\ plan.podado.bitacora = bitacora
  /\ plan.podado.consultas = consultas

\* after several steps with a refusal, the pruned table has just lost every
\* reservation before the current tick and the two runs agree
C35_Testigo ==
  /\ tick >= 4
  /\ eventos_alto >= 1
  /\ \E r \in IdsRobots : lista_robots[r].celdas_movidas >= 2
  /\ \A c \in DOMAIN plan.podado.tabla.reserva_celdas : c[3] = tick
  /\ Cardinality(DOMAIN plan.podado.tabla.reserva_celdas) < Cardinality(DOMAIN reserva_celdas)

(* ------------------------------------------------------------------ *)
(* Route tracking                                                      *)
(* ------------------------------------------------------------------ *)

\* C36: at every tick boundary every robot with a non-empty ruta satisfies
\* 0 <= idx_ruta <= len(ruta) - 1 and pos = ruta[idx_ruta], consecutive cells of
\* ruta are 4-adjacent, and ruta[0] was the robot's pos when the route was
\* planned (by an assignment or by a leg transition).
C36_SeguimientoDeRuta ==
  /\ \A r \in IdsRobots :
       LET ruta == lista_robots[r].ruta
           idx == lista_robots[r].idx_ruta
       IN ruta # << >> =>
            /\ 0 <= idx
            /\ idx <= Len(ruta) - 1
            /\ lista_robots[r].pos = ruta[idx + 1]
            /\ \A k \in 1 .. (Len(ruta) - 1) : Manhattan(ruta[k], ruta[k + 1]) = 1
  /\ \A k \in DOMAIN intentos :
       intentos[k].fin = "asignado" =>
         /\ intentos[k].robot_despues.ruta # << >>
         /\ intentos[k].robot_despues.ruta[1] = intentos[k].robot_antes.pos
         /\ intentos[k].robot_despues.idx_ruta = 0
  /\ \A k \in DOMAIN tramos :
       (tramos[k].fin = "ok" /\ tramos[k].antes.estado # "RETORNO") =>
         /\ tramos[k].despues.ruta # << >>
         /\ tramos[k].despues.ruta[1] = tramos[k].antes.pos
         /\ tramos[k].despues.idx_ruta = 0

\* a robot in the middle of its route to the dock, after having been refused a move
C36_Testigo ==
  \E r \in IdsRobots :
    /\ lista_robots[r].estado = "A_ESTACION"
    /\ lista_robots[r].idx_ruta >= 1
    /\ lista_robots[r].idx_ruta < Len(lista_robots[r].ruta) - 1
    /\ lista_robots[r].ticks_espera >= 1

(* ------------------------------------------------------------------ *)
(* Failed assignments, tick after tick.  The runs of SpecInanicion are *)
(* on a warehouse whose shelf 1 has its pickup cell (5,1) in a pocket  *)
(* no route leads to, while shelf 0 is served from (0,1), at the far   *)
(* end of the corridor.                                                *)
(* ------------------------------------------------------------------ *)

MaxTickInanicion == 6
MaxCreacionInanicion == 1

LayoutBolsillo ==
  [grid |-> << << 1, 3, 3, 3, 3, 1, 3 >>,
               << 0, 0, 0, 0, 3, 0, 3 >>,
               << 2, 0, 0, 0, 3, 3, 3 >> >>,
   anaquel_home |-> (0 :> <<0, 0>>) @@ (1 :> <<5, 0>>),
   estacion_dock |-> (0 :> <<0, 2>>)]

CeldasSpawnBolsillo == { <<1, 1>>, <<2, 1>>, <<3, 1>>, <<2, 2>>, <<3, 2>> }

ListasSpawnBolsillo(n) ==
  { f \in [1 .. n -> CeldasSpawnBolsillo] : \A i, j \in 1 .. n : i # j => f[i] # f[j] }

InitInanicion ==
  /\ layout = LayoutBolsillo
  /\ plan = SinPlan
  /\ \E n \in 1 .. 2, a0 \in 0 .. 1, a1 \in 0 .. 1 :
       \E puntos_spawn \in ListasSpawnBolsillo(n),
          t0 \in 0 .. MaxCreacionInanicion, t1 \in 0 .. MaxCreacionInanicion :
         sim = SimAlmacen(n, puntos_spawn,
                          (0 :> Pedido(0, a0, 0, t0)) @@ (1 :> Pedido(1, a1, 0, t1)))

StepInanicion ==
  /\ sim.tick < MaxTickInanicion
  /\ sim' = step(sim)
  /\ UNCHANGED << layout, plan >>

NextInanicion == StepInanicion

SpecInanicion == InitInanicion /\ [][NextInanicion]_vars

\* among the first 50 entries of cola there is an order whose pickup cell has a
\* route from desde
HayAlcanzable(cola, desde) ==
  \E j \in Candidatos(cola) :
    \E a \in {desde}, b \in {PickupDePedido(cola[j])} : DistanciaBFS(a, b) # NoneInt

\* in the step just taken robot r tried an order, found no route to its pickup
\* cell and stayed idle, although the queue it scanned had a reachable order
FalloConAlcanzable(r) ==
  \E k \in DOMAIN intentos :
    /\ intentos[k].robot_id = lista_robots[r].robot_id
    /\ intentos[k].fin = "sin_ruta"
    /\ HayAlcanzable(intentos[k].pendientes_antes, intentos[k].robot_antes.pos)

\* C37: a failed assignment costs at most one tick: a robot that stays idle
\* while, in every tick, the first 50 entries of pendientes hold an order whose
\* pickup cell is reachable from its pos is eventually assigned an order, even
\* when the order nearest by Manhattan distance has an unreachable pickup cell.
\* Finite form: a step in which such a robot failed is never followed by a step
\* in which it fails again and leaves robots, queues and orders exactly as the
\* step found them; from such a step on every later step is the same step, and
\* the robot is never assigned.
C37_FalloCuestaUnTick ==
  [][\A r \in IdsRobots :
       (FalloConAlcanzable(r) /\ FalloConAlcanzable(r)')
         => ~(/\ lista_robots' = lista_robots
              /\ pendientes' = pendientes
              /\ no_liberados' = no_liberados
              /\ no_liberados = << >>
              /\ pedidos' = pedidos)]_vars

(* ------------------------------------------------------------------ *)
(* Progress.  The runs of SpecBloqueo are on the corridor of S2, where *)
(* both shelves have a pickup cell and every transitable cell reaches  *)
(* every other, with two robots spawned anywhere on the corridor and   *)
(* one or two orders of any shelf and dock.                            *)
(* ------------------------------------------------------------------ *)

MaxTickBloqueo == 6
MaxCreacionBloqueo == 1

InitBloqueo ==
  /\ layout = LayoutS2
  /\ plan = SinPlan
  /\ \E x0 \in 0 .. 6, x1 \in 0 .. 6, m \in 1 .. 2 :
       /\ x0 # x1
       /\ \E a0 \in 0 .. 1, e0 \in 0 .. 1, a1 \in 0 .. 1, e1 \in 0 .. 1,
             t1 \in 0 .. MaxCreacionBloqueo :
            sim = SimAlmacen(2, << <<x0, 1>>, <<x1, 1>> >>,
                             [i \in 0 .. (m - 1) |->
                                IF i = 0 THEN Pedido(0, a0, e0, 0) ELSE Pedido(1, a1, e1, t1)])

StepBloqueo ==
  /\ sim.tick < MaxTickBloqueo
  /\ sim' = step(sim)
  /\ UNCHANGED << layout, plan >>

NextBloqueo == StepBloqueo

SpecBloqueo == InitBloqueo /\ [][NextBloqueo]_vars

\* the transitable cells that can be reached from the frontier
RECURSIVE Inundar(_, _)
Inundar(frontera, vistas) ==
  IF frontera = {} THEN vistas
  ELSE LET nuevas == (UNION { Vecinas(c) : c \in frontera }) \ vistas
       IN Inundar(nuevas, vistas \cup nuevas)

\* every shelf has a pickup cell, and spawn cells, pickup cells and docks (all
\* of them transitable cells) are mutually reachable
LayoutConexo ==
  /\ \A a \in DOMAIN anaquel_home_de : PickupDe(anaquel_home_de[a]) # NoneCelda
  /\ \A e \in DOMAIN estacion_dock_de : estacion_dock_de[e] \in CeldasTransitables
  /\ \A c \in CeldasTransitables : Inundar({c}, {c}) = CeldasTransitables

\* robot r, carrying an order, was refused in the step just taken by a lower-id
\* robot that stands idle on its next cell, while every other robot is idle and
\* no order is queued or still to be released: nothing can change any more, and
\* every later step refuses r in the same way
Bloqueado(r) ==
  /\ resultado[r] = "alto"
  /\ lista_robots[r].pedido_id # NoneInt
  /\ pendientes = << >>
  /\ no_liberados = << >>
  /\ \A q \in IdsRobots \ {r} : lista_robots[q].estado = "INACTIVO"
  /\ \E q \in IdsRobots :
       /\ lista_robots[q].robot_id < lista_robots[r].robot_id
       /\ lista_robots[q].pos = propuestas[r]

\* C38 as stated: on a layout where every shelf has a pickup cell and all spawn
\* cells, pickup cells and docks are mutually reachable, every order that is
\* assigned is eventually completed: no robot is refused its next move forever,
\* for example by a lower-id robot standing idle on its route.  Finite form: no
\* run reaches a state in which a robot carrying an order is refused by an idle
\* lower-id robot on its next cell with nothing left that could move that robot.
C38_SinBloqueoPermanente ==
  LayoutConexo => \A r \in IdsRobots : ~Bloqueado(r)

\* the table writes of the step that wrote the log bit, by robots of lower id
\* than robot_id, that make puede_moverse refuse the move from actual to siguiente
EscriturasQueNiegan(bit, robot_id, actual, siguiente) ==
  { k \in DOMAIN bit :
      /\ bit[k].robot_id < robot_id
      /\ \/ bit[k].celda = siguiente
         \/ bit[k].op = "movimiento" /\ bit[k].desde = siguiente /\ bit[k].celda = actual }

\* C38, amended: on such a layout no assignment and no leg transition fails for
\* want of a route, and in every tick a robot with route left proposes its next
\* cell and moves onto it unless the move is refused; a move is refused exactly
\* when a robot of lower id has already booked the target cell, or the reverse
\* edge, for the next tick.  A lower-id robot standing idle on the route
\* therefore refuses it at every tick, and an order that is assigned need not
\* ever be completed.
C38_AvanceSalvoNegativa ==
  [][LayoutConexo =>
       /\ \A k \in DOMAIN intentos' : intentos'[k].fin \in {"asignado", "sin_candidato"}
       /\ \A k \in DOMAIN tramos' : tramos'[k].fin # "fallo"
       /\ \A r \in IdsRobots :
            LET a == pre_resolver'[r]
                p == propuestas'[r]
                niegan == EscriturasQueNiegan(bitacora', a.robot_id, a.pos, p)
            IN /\ (a.estado # "INACTIVO" /\ a.idx_ruta < Len(a.ruta) - 1)
                    => p = a.ruta[a.idx_ruta + 2]
               /\ p # a.pos =>
                    /\ (resultado'[r] = "alto") <=> (niegan # {})
                    /\ (resultado'[r] = "mueve") <=> (niegan = {})
                    /\ niegan = {} => lista_robots'[r].pos = p
                    /\ niegan # {} => lista_robots'[r].pos = a.pos
               /\ (\E q \in IdsRobots :
                     /\ pre_resolver'[q].robot_id < a.robot_id
                     /\ pre_resolver'[q].estado = "INACTIVO"
                     /\ pre_resolver'[q].pos = p)
                    => lista_robots'[r].pos = a.pos]_vars

\* a robot carrying an order has been refused twice in a row by the idle robot
\* of lower id on its next cell, with no order left for that robot
C38_Testigo ==
  /\ LayoutConexo
  /\ \E r \in IdsRobots :
       /\ Bloqueado(r)
       /\ lista_robots[r].ticks_espera >= 2
       /\ conteo_deadlock >= 2
====
